---------------------------- MODULE Spec2Model ----------------------------
(***************************************************************************)
(* A model of the RFP extraction pipeline of khaledbashir/ooocccrrr:       *)
(* the chunker and the relevance classifier (lib/rfpFilter), the           *)
(* structured workbook (lib/rfpWorkbook), the workbook diff (app/page)     *)
(* and the estimator (lib/estimatorEngine).                                *)
(* Texts are TLA+ strings; the string functions of the code are computed   *)
(* character by character with Len, SubSeq and \o.                         *)
(***************************************************************************)
EXTENDS Integers, Sequences, FiniteSets, TLC

VARIABLES
    chunkerIn,      \* chunker harness: the list of sections being assembled
    chunkerRaw,     \* the raw text handed to splitIntoChunks
    chunkerOut,     \* the value splitIntoChunks returned
    chunkerPc,      \* "build" while the input is assembled, "done" after the call
    scoreIn,        \* classifier harness: the fragments of the text being assembled
    scoreOut,       \* the ChunkScore scoreRfpChunk returned
    scorePc,        \* "build" while the text is assembled, "done" after the call
    wbIn,           \* workbook harness: the chunks and the meta handed to the builder
    wbBuilt,        \* the workbook buildStructuredWorkbook returned
    wbSheets,       \* the sheet rows exported from a workbook, or rows of a foreign file
    wbParsed,       \* the value parseStructuredWorkbookFromSheets returned
    wbPc,           \* "edit", "built", "exported" or "parsed"
    diffIn,         \* diff harness: the previous and the next workbook
    diffOut,        \* the value diffStructuredWorkbooks returned
    diffPc,         \* "build" while the workbooks are assembled, "done" after the call
    estIn,          \* estimator harness: the fragments of the text, and the titles
    estOut,         \* the AncEstimateResult runAncEstimator returned
    estPc,          \* "build" while the text is assembled, "done" after the call
    page,           \* the page (app/page.tsx): the React state of the Home component
    pageTimers,     \* the analysis runs waiting on setTimeout(resolve, 0), oldest first
    pageReads,      \* the imports waiting on uploadedFile.arrayBuffer()
    pageExtract,    \* the upload waiting on extractContent, if any
    pageConsole,    \* the errors logged with console.error
    latestAnalysis, \* <<text>> of the most recent runRelevanceAnalysis call, or <<>>
    pageOps         \* the number of operations the user has started

chunkerVars == <<chunkerIn, chunkerRaw, chunkerOut, chunkerPc>>
scoreVars == <<scoreIn, scoreOut, scorePc>>
wbVars == <<wbIn, wbBuilt, wbSheets, wbParsed, wbPc>>
diffVars == <<diffIn, diffOut, diffPc>>
estVars == <<estIn, estOut, estPc>>
pageVars == <<page, pageTimers, pageReads, pageExtract, pageConsole, latestAnalysis, pageOps>>

vars == <<chunkerVars, scoreVars, wbVars, diffVars, estVars, pageVars>>

\* What each harness leaves alone.
notChunkerVars == <<scoreVars, wbVars, diffVars, estVars, pageVars>>
notScoreVars == <<chunkerVars, wbVars, diffVars, estVars, pageVars>>
notWbVars == <<chunkerVars, scoreVars, diffVars, estVars, pageVars>>
notDiffVars == <<chunkerVars, scoreVars, wbVars, estVars, pageVars>>
notEstVars == <<chunkerVars, scoreVars, wbVars, diffVars, pageVars>>
notPageVars == <<chunkerVars, scoreVars, wbVars, diffVars, estVars>>

\* The value of a result that has not been computed.
None == [none |-> TRUE]

(***************************************************************************)
(* Bounds of the model.                                                    *)
(***************************************************************************)
MaxChunkerFrags == 3
MaxChunkerChunks == 3
MaxScoreFrags == 3

(***************************************************************************)
(* Strings, as JavaScript computes them.                                   *)
(***************************************************************************)
Min(S) == CHOOSE m \in S : \A n \in S : m <= n
Max(S) == CHOOSE m \in S : \A n \in S : m >= n

CharAt(s, i) == SubSeq(s, i, i)

\* The ASCII part of the characters String.prototype.trim and \s treat as space.
WhiteSpace == {" ", "\n", "\t", "\r", "\f"}

\* String.prototype.trim
Trim(s) ==
    LET solid == {i \in 1..Len(s) : CharAt(s, i) \notin WhiteSpace}
    IN  IF solid = {} THEN "" ELSE SubSeq(s, Min(solid), Max(solid))

\* String.prototype.indexOf(k, from), 1-based; 0 when k does not occur.
IndexOf(s, k, from) ==
    LET hits == {i \in from..(Len(s) - Len(k) + 1) : SubSeq(s, i, i + Len(k) - 1) = k}
    IN  IF hits = {} THEN 0 ELSE Min(hits)

\* String.prototype.includes
Includes(s, k) == IndexOf(s, k, 1) # 0

\* String.prototype.split(sep) for a non-empty string sep
RECURSIVE SplitStr(_, _)
SplitStr(s, sep) ==
    LET i == IndexOf(s, sep, 1)
    IN  IF i = 0 THEN <<s>>
        ELSE <<SubSeq(s, 1, i - 1)>> \o SplitStr(SubSeq(s, i + Len(sep), Len(s)), sep)

\* The end of the run of newlines that starts at i.
RECURSIVE NewlineRunEnd(_, _)
NewlineRunEnd(s, i) ==
    IF i < Len(s) /\ CharAt(s, i + 1) = "\n" THEN NewlineRunEnd(s, i + 1) ELSE i

\* String.prototype.split(/\n{k,}/): the pieces between maximal runs of at
\* least k newlines (k = 1 is /\n+/, k = 2 is /\n{2,}/).
RECURSIVE SplitNewlines(_, _)
SplitNewlines(s, k) ==
    LET starts == {i \in 1..Len(s) : CharAt(s, i) = "\n"
                                     /\ NewlineRunEnd(s, i) - i + 1 >= k}
    IN  IF starts = {} THEN <<s>>
        ELSE LET i == Min(starts)
                 j == NewlineRunEnd(s, i)
             IN  <<SubSeq(s, 1, i - 1)>> \o SplitNewlines(SubSeq(s, j + 1, Len(s)), k)

\* Array.prototype.join
RECURSIVE Join(_, _)
Join(parts, sep) ==
    IF Len(parts) = 0 THEN ""
    ELSE IF Len(parts) = 1 THEN parts[1]
    ELSE parts[1] \o sep \o Join(Tail(parts), sep)

MapTrim(parts) == [i \in 1..Len(parts) |-> Trim(parts[i])]

\* String.prototype.toLowerCase on ASCII text.
UpperLetters == "ABCDEFGHIJKLMNOPQRSTUVWXYZ"
LowerLetters == "abcdefghijklmnopqrstuvwxyz"
UpperSet == {CharAt(UpperLetters, i) : i \in 1..26}
LowerOf == [c \in UpperSet |->
               CharAt(LowerLetters, CHOOSE i \in 1..26 : CharAt(UpperLetters, i) = c)]
LowerChar(c) == IF c \in UpperSet THEN LowerOf[c] ELSE c

\* F(lo) \o ... \o F(hi), put together by halves.
RECURSIVE ConcatOver(_, _, _)
ConcatOver(F(_), lo, hi) ==
    IF lo > hi THEN ""
    ELSE IF lo = hi THEN F(lo)
    ELSE ConcatOver(F, lo, (lo + hi) \div 2) \o ConcatOver(F, (lo + hi) \div 2 + 1, hi)

\* The characters of s, each replaced by F of it.
MapChars(F(_), s) ==
    LET At(i) == F(CharAt(s, i))
    IN  ConcatOver(At, 1, Len(s))

ToLower(s) == MapChars(LowerChar, s)

\* String.prototype.replace(/\s+/g, " ")
CollapseSpace(s) ==
    LET At(i) == IF CharAt(s, i) \notin WhiteSpace THEN CharAt(s, i)
                 ELSE IF i > 1 /\ CharAt(s, i - 1) \in WhiteSpace THEN ""
                 ELSE " "
    IN  ConcatOver(At, 1, Len(s))

\* Array.prototype.slice(0, n)
SliceSeq(q, n) == IF Len(q) <= n THEN q ELSE SubSeq(q, 1, n)

\* String.prototype.slice(0, n)
SliceTo(s, n) == IF Len(s) <= n THEN s ELSE SubSeq(s, 1, n)

(***************************************************************************)
(* Regular expressions.  A pattern is a sequence of nodes:                 *)
(*   [t |-> "lit", s]             the literal text s                       *)
(*   [t |-> "b"]                  \b                                       *)
(*   [t |-> "chr", set, neg, min, max]  a character of the set (or, with   *)
(*                                neg, outside it), min to max times       *)
(*   [t |-> "grp", alts, min]     a group of alternatives; min = 0 is (..)?*)
(* Patterns flagged /i are written in lower case and run on the lower-cased*)
(* text.  RegExp.prototype.test asks whether the nodes match at some      *)
(* position; String.prototype.match also needs where the match ends.       *)
(***************************************************************************)
Digits == {"0", "1", "2", "3", "4", "5", "6", "7", "8", "9"}
LowerSet == {CharAt(LowerLetters, i) : i \in 1..26}
WordChars == LowerSet \cup UpperSet \cup Digits \cup {"_"}
Unbounded == 1000000

Lit(s) == [t |-> "lit", s |-> s]
B == [t |-> "b"]
Chr(set, min, max) == [t |-> "chr", set |-> set, neg |-> FALSE, min |-> min, max |-> max]
NotChr(set, min, max) == [t |-> "chr", set |-> set, neg |-> TRUE, min |-> min, max |-> max]
Grp(alts) == [t |-> "grp", alts |-> alts, min |-> 1]
Opt(alts) == [t |-> "grp", alts |-> alts, min |-> 0]
Ws0 == Chr(WhiteSpace, 0, Unbounded)
Ws1 == Chr(WhiteSpace, 1, Unbounded)
Dot == NotChr({"\n", "\r"}, 1, 1)
DotStar == NotChr({"\n", "\r"}, 0, Unbounded)

IsWordAt(t, i) == i >= 1 /\ i <= Len(t) /\ CharAt(t, i) \in WordChars
AtBoundary(t, i) == IsWordAt(t, i - 1) # IsWordAt(t, i)

InClass(n, c) == (c \in n.set) # n.neg

\* The number of characters from i on that node n accepts, at most n.max.
RunLength(n, t, i) ==
    LET stops == {j \in i..Len(t) : ~InClass(n, CharAt(t, j))}
        run == (IF stops = {} THEN Len(t) + 1 ELSE Min(stops)) - i
    IN  IF run < n.max THEN run ELSE n.max

\* The position after the match of the nodes from k on at position i, as
\* a backtracking matcher finds it: alternatives in order, repetitions
\* longest first.  0 when there is no match.
RECURSIVE MatchEnd(_, _, _, _)
RECURSIVE GreedyEnd(_, _, _, _, _)
RECURSIVE AltEnd(_, _, _, _, _)

GreedyEnd(nodes, k, t, i, m) ==
    IF m < nodes[k].min THEN 0
    ELSE LET end == MatchEnd(nodes, k + 1, t, i + m)
         IN  IF end # 0 THEN end ELSE GreedyEnd(nodes, k, t, i, m - 1)

AltEnd(nodes, k, t, i, a) ==
    IF a > Len(nodes[k].alts)
    THEN IF nodes[k].min = 0 THEN MatchEnd(nodes, k + 1, t, i) ELSE 0
    ELSE LET end == MatchEnd(nodes[k].alts[a] \o SubSeq(nodes, k + 1, Len(nodes)), 1, t, i)
         IN  IF end # 0 THEN end ELSE AltEnd(nodes, k, t, i, a + 1)

MatchEnd(nodes, k, t, i) ==
    IF k > Len(nodes) THEN i
    ELSE LET n == nodes[k]
         IN  CASE n.t = "lit" ->
                     IF i + Len(n.s) - 1 <= Len(t) /\ SubSeq(t, i, i + Len(n.s) - 1) = n.s
                     THEN MatchEnd(nodes, k + 1, t, i + Len(n.s)) ELSE 0
               [] n.t = "b" -> IF AtBoundary(t, i) THEN MatchEnd(nodes, k + 1, t, i) ELSE 0
               [] n.t = "chr" -> GreedyEnd(nodes, k, t, i, RunLength(n, t, i))
               [] n.t = "grp" -> AltEnd(nodes, k, t, i, 1)

\* The first match at or after position from: <<start, end>> with end the
\* position after the match, <<0, 0>> when there is none.
FirstMatch(nodes, t, from) ==
    LET starts == {i \in from..(Len(t) + 1) : MatchEnd(nodes, 1, t, i) # 0}
    IN  IF starts = {} THEN <<0, 0>>
        ELSE <<Min(starts), MatchEnd(nodes, 1, t, Min(starts))>>

\* Whether the nodes from k on match at position i.
RECURSIVE MatchesFrom(_, _, _, _)
MatchesFrom(nodes, k, t, i) ==
    IF k > Len(nodes) THEN TRUE
    ELSE LET n == nodes[k]
         IN  CASE n.t = "lit" ->
                     /\ i + Len(n.s) - 1 <= Len(t)
                     /\ SubSeq(t, i, i + Len(n.s) - 1) = n.s
                     /\ MatchesFrom(nodes, k + 1, t, i + Len(n.s))
               [] n.t = "b" -> MatchesFrom(nodes, k + 1, t, i) /\ AtBoundary(t, i)
               [] n.t = "chr" ->
                     \E m \in n.min..RunLength(n, t, i) :
                         MatchesFrom(nodes, k + 1, t, i + m)
               [] n.t = "grp" ->
                     \/ \E a \in 1..Len(n.alts) :
                           MatchesFrom(n.alts[a] \o SubSeq(nodes, k + 1, Len(nodes)), 1, t, i)
                     \/ n.min = 0 /\ MatchesFrom(nodes, k + 1, t, i)

\* The literal every match of the nodes starts with ("" when the pattern
\* does not start with a literal, after an optional \b).
LeadingLiteral(nodes) ==
    IF nodes[1].t = "lit" THEN nodes[1].s
    ELSE IF nodes[1].t = "b" /\ Len(nodes) > 1 /\ nodes[2].t = "lit" THEN nodes[2].s
    ELSE ""

\* RegExp.prototype.test: some position starts a match.  Only the positions
\* at which the leading literal stands are tried.
Test(nodes, t) ==
    LET lead == LeadingLiteral(nodes)
    IN  \E i \in 1..(Len(t) + 1 - Len(lead)) :
            /\ lead = "" \/ SubSeq(t, i, i + Len(lead) - 1) = lead
            /\ MatchesFrom(nodes, 1, t, i)

(***************************************************************************)
(* The chunker.                                                            *)
(***************************************************************************)
Sentinel == "\n\n---\n\n"

\* The fragment length a blank-line fragment must exceed to be kept.
MinFragmentLen == 80

\* Mutant: the sentinel path keeps its blank parts.
KeepNonEmpty_KeepsAll(part) == TRUE

KeepNonEmpty(part) == part # ""
KeepLong(part) == Len(part) > MinFragmentLen

\* Mutant: the sentinel is never looked for.
splitIntoChunks_BlankLinesOnly(rawText) ==
    SelectSeq(MapTrim(SplitNewlines(Trim(rawText), 2)), KeepLong)

splitIntoChunks(rawText) ==
    LET normalized == Trim(rawText)
    IN  IF normalized = "" THEN <<>>
        ELSE IF Includes(normalized, Sentinel)
             THEN SelectSeq(MapTrim(SplitStr(normalized, Sentinel)), KeepNonEmpty)
             ELSE SelectSeq(MapTrim(SplitNewlines(normalized, 2)), KeepLong)

(***************************************************************************)
(* The chunker harness: a list of sections is assembled from fragments,    *)
(* joined with the sentinel and handed to splitIntoChunks.                 *)
(***************************************************************************)
X80 == "xxxxxxxxxxxxxxxxxxxxxxxxxxxxxxxxxxxxxxxxxxxxxxxxxxxxxxxxxxxxxxxxxxxxxxxxxxxxxxxx"
X81 == X80 \o "y"

ChunkerFragments == {"a", " ", "\n\n", "---", X80, X81}

\* The text of a section assembled from fragments.
RECURSIVE Concat(_)
Concat(frags) == IF Len(frags) = 0 THEN "" ELSE Head(frags) \o Concat(Tail(frags))

RECURSIVE FragCount(_)
FragCount(sections) ==
    IF Len(sections) = 0 THEN 0 ELSE Len(Head(sections)) + FragCount(Tail(sections))

ChunkerSections == [i \in 1..Len(chunkerIn) |-> Concat(chunkerIn[i])]

ChunkerInit ==
    /\ chunkerIn = <<>>
    /\ chunkerRaw = ""
    /\ chunkerOut = <<>>
    /\ chunkerPc = "build"
    \* The other harnesses are not running.
    /\ scoreIn = <<>>
    /\ scoreOut = None
    /\ scorePc = "idle"
    /\ wbIn = None
    /\ wbBuilt = None
    /\ wbSheets = None
    /\ wbParsed = None
    /\ wbPc = "idle"
    /\ diffIn = None
    /\ diffOut = None
    /\ diffPc = "idle"
    /\ estIn = None
    /\ estOut = None
    /\ estPc = "idle"
    /\ page = None
    /\ pageTimers = <<>>
    /\ pageReads = <<>>
    /\ pageExtract = None
    /\ pageConsole = <<>>
    /\ latestAnalysis = <<>>
    /\ pageOps = 0

\* A new, still empty, section is started.
ChunkerNewSection ==
    /\ chunkerPc = "build"
    /\ Len(chunkerIn) < MaxChunkerChunks
    /\ chunkerIn' = Append(chunkerIn, <<>>)
    /\ UNCHANGED <<chunkerRaw, chunkerOut, chunkerPc>>
    /\ UNCHANGED notChunkerVars

\* A fragment is appended to the last section.
ChunkerAddFragment ==
    /\ chunkerPc = "build"
    /\ Len(chunkerIn) > 0
    /\ FragCount(chunkerIn) < MaxChunkerFrags
    /\ \E f \in ChunkerFragments :
          chunkerIn' = [chunkerIn EXCEPT ![Len(chunkerIn)] = Append(@, f)]
    /\ UNCHANGED <<chunkerRaw, chunkerOut, chunkerPc>>
    /\ UNCHANGED notChunkerVars

\* The sections are joined with the sentinel (page.tsx builds relevantContent
\* this way) and the joined text is split again.
ChunkerSplit ==
    /\ chunkerPc = "build"
    /\ chunkerRaw' = Join(ChunkerSections, Sentinel)
    /\ chunkerOut' = splitIntoChunks(chunkerRaw')
    /\ chunkerPc' = "done"
    /\ UNCHANGED chunkerIn
    /\ UNCHANGED notChunkerVars

ChunkerNext == ChunkerNewSection \/ ChunkerAddFragment \/ ChunkerSplit

SpecChunker == ChunkerInit /\ [][ChunkerNext]_vars

(***************************************************************************)
(* Claims about the chunker.                                               *)
(***************************************************************************)
ChunkerDone == chunkerPc = "done"

NoSectionHoldsSentinel ==
    \A i \in 1..Len(chunkerIn) : ~Includes(ChunkerSections[i], Sentinel)

EndsWith(s, k) == Len(s) >= Len(k) /\ SubSeq(s, Len(s) - Len(k) + 1, Len(s)) = k

\* Every section is non-empty, has no leading or trailing white space, and
\* does not end with the head of the sentinel.
SectionsAreClean ==
    \A i \in 1..Len(chunkerIn) :
        /\ ChunkerSections[i] # ""
        /\ Trim(ChunkerSections[i]) = ChunkerSections[i]
        /\ ~EndsWith(ChunkerSections[i], "\n\n---")

\* C3 as stated: for every non-empty list of sections none of which contains
\* the sentinel, splitting the sections joined by the sentinel returns the
\* list itself, also for a single section and for short sections (stated
\* here for sections that are not blank).
C3_JoinSplitRoundTrip ==
    (/\ ChunkerDone
     /\ Len(chunkerIn) > 0
     /\ NoSectionHoldsSentinel
     /\ \A i \in 1..Len(chunkerIn) : Trim(ChunkerSections[i]) # "")
        => chunkerOut = ChunkerSections

\* C3 amended: for every list of at least two sections, each non-empty, free
\* of leading and trailing white space, free of the sentinel and not ending
\* with "\n\n---", splitting the sections joined by the sentinel returns
\* exactly the list (same sections, same order, same count), whatever the
\* length of the sections.
C3_JoinSplitRoundTripClean ==
    (ChunkerDone /\ Len(chunkerIn) >= 2 /\ NoSectionHoldsSentinel /\ SectionsAreClean)
        => chunkerOut = ChunkerSections

\* Three clean sections, one of them short, went through the round trip.
C3_Witness ==
    /\ ChunkerDone
    /\ Len(chunkerIn) = 3
    /\ NoSectionHoldsSentinel
    /\ SectionsAreClean
    /\ \E i \in 1..3 : Len(ChunkerSections[i]) < MinFragmentLen
    /\ chunkerOut = ChunkerSections

\* C4: splitIntoChunks returns the empty list for empty or white-space-only
\* input, and no chunk it returns is empty or white space only, on the
\* sentinel path and on the blank-line path.
C4_NoBlankChunk ==
    ChunkerDone =>
        /\ (Trim(chunkerRaw) = "" => chunkerOut = <<>>)
        /\ \A i \in 1..Len(chunkerOut) : Trim(chunkerOut[i]) # ""

\* The sentinel path dropped a blank part and kept the others.
C4_Witness ==
    /\ ChunkerDone
    /\ Includes(Trim(chunkerRaw), Sentinel)
    /\ Len(chunkerOut) > 0
    /\ Len(chunkerOut) < Len(SplitStr(Trim(chunkerRaw), Sentinel))

(***************************************************************************)
(* The relevance classifier: its keyword and pattern tables.               *)
(***************************************************************************)
KEYWORD_CATEGORIES == <<
    [name |-> "Display Hardware", keywords |-> <<
        "led", "l.e.d.", "led display", "video board", "video display", "video wall", "scoreboard",
        "ribbon board", "ribbon display", "fascia", "fascia board", "center hung", "centerhung",
        "auxiliary board", "auxiliary display", "marquee", "digital signage", "display panel",
        "display module", "led module", "led cabinet", "led tile" >>],
    [name |-> "Display Specs", keywords |-> <<
        "pixel pitch", "smd", "dip", "brightness", "nits", "candela", "viewing distance",
        "viewing angle", "refresh rate", "resolution", "grayscale", "color temperature",
        "contrast ratio", "ip rating", "ip65", "ip54", "weatherproof", "outdoor rated",
        "indoor rated" >>],
    [name |-> "Electrical", keywords |-> <<
        "electrical", "power distribution", "power supply", "power requirements", "voltage",
        "amperage", "wattage", "circuit breaker", "transformer", "ups", "uninterruptible",
        "generator", "conduit", "junction box", "disconnect", "nec", "electrical code",
        "branch circuit", "dedicated circuit", "service entrance", "panel board", "load calculation" >>],
    [name |-> "Structural", keywords |-> <<
        "mounting", "rigging", "structural", "structural steel", "steel", "i-beam", "w-beam",
        "catenary", "guy wire", "dead load", "live load", "wind load", "seismic", "anchor",
        "concrete anchor", "embed plate", "unistrut", "bracket", "cleat", "hanger", "truss",
        "canopy", "overhang", "elevation", "structural engineer", "pe stamp" >>],
    [name |-> "Installation", keywords |-> <<
        "installation", "install", "labor", "crew", "lift", "crane", "boom lift", "scissor lift",
        "scaffolding", "conduit run", "cable tray", "wire pull", "termination", "commissioning",
        "testing", "alignment", "leveling" >>],
    [name |-> "Control/Data", keywords |-> <<
        "control system", "controller", "processor", "video processor", "scaler", "fiber",
        "fiber optic", "data cable", "cat6", "cat5", "hdmi", "dvi", "sdi", "signal", "redundancy",
        "failover", "network", "switch", "media player" >>],
    [name |-> "Permits", keywords |-> <<
        "permit", "permits", "sign code", "building code", "zoning", "variance", "ada", "egress",
        "fire code", "fire marshal", "inspection", "stamped drawings", "pe",
        "professional engineer", "shop drawings", "submittals" >>],
    [name |-> "Commercial", keywords |-> <<
        "pricing", "bid", "proposal", "quote", "rfp", "rfq", "scope of work", "sow",
        "specification", "spec", "spec section", "division", "csi", "alternates", "alternate",
        "base bid", "add alternate", "deduct alternate", "unit price", "allowance", "contingency",
        "warranty", "maintenance", "service agreement" >>] >>

MUST_KEEP_PHRASES == <<
    "11 06 60", "11.06.60", "110660", "11 63 10", "11.63.10", "116310", "section 11",
    "division 11", "led display schedule", "display schedule", "schedule of displays",
    "av schedule", "exhibit b", "cost schedule", "bid form", "exhibit a", "thornton tomasetti",
    "tte", "division 26", "26 51", "sports lighting", "division 27", "27 41", "sound system" >>

SIGNAL_KEYWORDS == <<
    "schedule", "pricing", "bid form", "display", "led", "specification", "technical", "qty",
    "quantity", "pixel pitch", "resolution", "nits", "brightness", "cabinet", "module", "diode",
    "refresh rate", "viewing angle", "warranty", "spare parts", "maintenance", "structural",
    "steel", "weight", "lbs", "kg", "power", "voltage", "amps", "circuit", "data", "fiber", "cat6",
    "division 27", "division 26", "section 11", "active area", "dimensions" >>

NOISE_KEYWORDS == <<
    "indemnification", "insurance", "liability", "termination", "arbitration", "force majeure",
    "governing law", "jurisdiction", "severability", "waiver", "confidentiality",
    "intellectual property", "compliance", "equal opportunity", "harassment", "drug-free",
    "background check" >>

\* (the two non-ASCII characters of the second pattern are left out)
HIGH_VALUE_BOOSTERS == <<
    [source |-> "\\$[\\d,]+", ci |-> FALSE, nodes |-> <<Lit("$"), Chr(Digits \cup {","}, 1, Unbounded)>>],
    [source |-> "\\d+[']\\s*[hHxX]\\s*\\d+", ci |-> FALSE, nodes |-> <<Chr(Digits, 1, Unbounded), Chr({"'"}, 1, 1), Ws0, Chr({"h", "H", "x", "X"}, 1, 1), Ws0, Chr(Digits, 1, Unbounded)>>],
    [source |-> "\\d+\\s*mm\\b", ci |-> TRUE, nodes |-> <<Chr(Digits, 1, Unbounded), Ws0, Lit("mm"), B>>],
    [source |-> "\\d+\\s*nit", ci |-> TRUE, nodes |-> <<Chr(Digits, 1, Unbounded), Ws0, Lit("nit")>>],
    [source |-> "\\d+\\s*sq", ci |-> TRUE, nodes |-> <<Chr(Digits, 1, Unbounded), Ws0, Lit("sq")>>],
    [source |-> "\\bled\\b.*\\bdisplay\\b", ci |-> TRUE, nodes |-> <<B, Lit("led"), B, DotStar, B, Lit("display"), B>>],
    [source |-> "\\bphase\\s*\\d", ci |-> TRUE, nodes |-> <<B, Lit("phase"), Ws0, Chr(Digits, 1, 1)>>],
    [source |-> "\\byear\\s*\\d", ci |-> TRUE, nodes |-> <<B, Lit("year"), Ws0, Chr(Digits, 1, 1)>>] >>

CATEGORY_PATTERNS == <<
    [name |-> "PRICING", patterns |-> <<
        [ci |-> TRUE, nodes |-> <<B, Lit("pric"), Grp(<<<<Lit("e")>>, <<Lit("ing")>>, <<Lit("ed")>>>>), B>>],
        [ci |-> TRUE, nodes |-> <<B, Lit("cost"), B>>],
        [ci |-> TRUE, nodes |-> <<B, Lit("total"), B>>],
        [ci |-> TRUE, nodes |-> <<B, Lit("budget"), B>>],
        [ci |-> TRUE, nodes |-> <<B, Lit("bid"), B>>],
        [ci |-> TRUE, nodes |-> <<B, Lit("quot"), Grp(<<<<Lit("e")>>, <<Lit("ation")>>>>), B>>],
        [ci |-> TRUE, nodes |-> <<B, Lit("fee"), B>>],
        [ci |-> TRUE, nodes |-> <<B, Lit("rate"), B>>],
        [ci |-> TRUE, nodes |-> <<B, Lit("compensation"), B>>],
        [ci |-> TRUE, nodes |-> <<B, Lit("allowance"), B>>],
        [ci |-> TRUE, nodes |-> <<B, Lit("estimate"), B>>],
        [ci |-> TRUE, nodes |-> <<B, Lit("line"), Ws0, Lit("item")>>],
        [ci |-> TRUE, nodes |-> <<B, Lit("unit"), Ws0, Lit("price")>>],
        [ci |-> TRUE, nodes |-> <<B, Lit("lump"), Ws0, Lit("sum")>>],
        [ci |-> TRUE, nodes |-> <<B, Lit("alternate"), B>>],
        [ci |-> TRUE, nodes |-> <<B, Lit("add"), Ws0, Lit("on")>>],
        [ci |-> TRUE, nodes |-> <<B, Lit("deduct")>>] >>],
    [name |-> "DISPLAY_SPECS", patterns |-> <<
        [ci |-> TRUE, nodes |-> <<B, Lit("pixel"), Ws0, Lit("pitch"), B>>],
        [ci |-> TRUE, nodes |-> <<B, Lit("resolution"), B>>],
        [ci |-> TRUE, nodes |-> <<B, Lit("nit"), Chr({"s"}, 0, 1), B>>],
        [ci |-> TRUE, nodes |-> <<B, Lit("brightness"), B>>],
        [ci |-> TRUE, nodes |-> <<B, Lit("led"), B>>],
        [ci |-> TRUE, nodes |-> <<B, Lit("lcd"), B>>],
        [ci |-> TRUE, nodes |-> <<B, Lit("display"), B>>],
        [ci |-> TRUE, nodes |-> <<B, Lit("screen"), B>>],
        [ci |-> TRUE, nodes |-> <<B, Lit("video"), Ws0, Grp(<<<<Lit("wall")>>, <<Lit("board")>>>>), B>>],
        [ci |-> TRUE, nodes |-> <<B, Lit("scoreboard"), B>>],
        [ci |-> TRUE, nodes |-> <<B, Lit("ribbon"), Ws0, Lit("board"), B>>],
        [ci |-> TRUE, nodes |-> <<B, Lit("fascia"), B>>],
        [ci |-> TRUE, nodes |-> <<B, Lit("marquee"), B>>],
        [ci |-> TRUE, nodes |-> <<B, Lit("dimension")>>],
        [ci |-> TRUE, nodes |-> <<B, Lit("sq"), Opt(<<<<Lit("uare")>>>>), Ws0, Lit("f"), Opt(<<<<Lit("ee")>>>>), Lit("t"), B>>],
        [ci |-> TRUE, nodes |-> <<B, Lit("foot"), B, DotStar, B, Lit("wide"), B>>],
        [ci |-> TRUE, nodes |-> <<B, Lit("power"), Ws0, Lit("consumption")>>],
        [ci |-> TRUE, nodes |-> <<B, Lit("weight"), B>>],
        [ci |-> TRUE, nodes |-> <<B, Lit("cabinet"), B>>],
        [ci |-> TRUE, nodes |-> <<B, Lit("module"), B>>],
        [ci |-> TRUE, nodes |-> <<B, Lit("refresh"), Ws0, Lit("rate")>>],
        [ci |-> TRUE, nodes |-> <<B, Lit("viewing"), Ws0, Grp(<<<<Lit("angle")>>, <<Lit("distance")>>>>)>>] >>],
    [name |-> "SCOPE", patterns |-> <<
        [ci |-> TRUE, nodes |-> <<B, Lit("scope"), Ws0, Opt(<<<<Lit("of"), Ws0, Lit("work")>>>>), B>>],
        [ci |-> TRUE, nodes |-> <<B, Lit("install"), Opt(<<<<Lit("ation")>>>>), B>>],
        [ci |-> TRUE, nodes |-> <<B, Lit("demolition"), B>>],
        [ci |-> TRUE, nodes |-> <<B, Lit("remov"), Grp(<<<<Lit("e")>>, <<Lit("al")>>>>), B>>],
        [ci |-> TRUE, nodes |-> <<B, Lit("phase"), B>>],
        [ci |-> TRUE, nodes |-> <<B, Lit("mobiliz"), Grp(<<<<Lit("e")>>, <<Lit("ation")>>>>), B>>],
        [ci |-> TRUE, nodes |-> <<B, Lit("commission")>>],
        [ci |-> TRUE, nodes |-> <<B, Lit("integrat")>>],
        [ci |-> TRUE, nodes |-> <<B, Lit("subcontract")>>],
        [ci |-> TRUE, nodes |-> <<B, Lit("responsib"), Grp(<<<<Lit("le")>>, <<Lit("ility")>>>>), B>>],
        [ci |-> TRUE, nodes |-> <<B, Lit("exclusion")>>],
        [ci |-> TRUE, nodes |-> <<B, Lit("assumption")>>],
        [ci |-> TRUE, nodes |-> <<B, Lit("deliverable")>>],
        [ci |-> TRUE, nodes |-> <<B, Lit("work"), Ws0, Lit("plan")>>],
        [ci |-> TRUE, nodes |-> <<B, Lit("general"), Ws0, Lit("condition")>>],
        [ci |-> TRUE, nodes |-> <<B, Lit("site"), Ws0, Lit("prep")>>] >>],
    [name |-> "SCHEDULE", patterns |-> <<
        [ci |-> TRUE, nodes |-> <<B, Lit("schedule"), B>>],
        [ci |-> TRUE, nodes |-> <<B, Lit("timeline"), B>>],
        [ci |-> TRUE, nodes |-> <<B, Lit("milestone"), B>>],
        [ci |-> TRUE, nodes |-> <<B, Lit("deadline"), B>>],
        [ci |-> TRUE, nodes |-> <<B, Lit("completion"), Ws0, Lit("date")>>],
        [ci |-> TRUE, nodes |-> <<B, Lit("notice"), Ws0, Lit("to"), Ws0, Lit("proceed")>>],
        [ci |-> TRUE, nodes |-> <<B, Lit("ntp"), B>>],
        [ci |-> TRUE, nodes |-> <<B, Lit("substantial"), Ws0, Lit("completion")>>],
        [ci |-> TRUE, nodes |-> <<B, Lit("duration"), B>>],
        [ci |-> TRUE, nodes |-> <<B, Lit("calendar"), Ws0, Lit("day")>>],
        [ci |-> TRUE, nodes |-> <<B, Lit("work"), Opt(<<<<Lit("ing")>>>>), Ws0, Lit("day")>>],
        [ci |-> TRUE, nodes |-> <<B, Lit("gantt"), B>>],
        [ci |-> TRUE, nodes |-> <<B, Lit("critical"), Ws0, Lit("path")>>],
        [ci |-> TRUE, nodes |-> <<B, Lit("liquidated"), Ws0, Lit("damage")>>] >>],
    [name |-> "REQUIREMENTS", patterns |-> <<
        [ci |-> TRUE, nodes |-> <<B, Lit("requirement")>>],
        [ci |-> TRUE, nodes |-> <<B, Lit("qualification")>>],
        [ci |-> TRUE, nodes |-> <<B, Lit("certific"), Grp(<<<<Lit("ate")>>, <<Lit("ation")>>>>)>>],
        [ci |-> TRUE, nodes |-> <<B, Lit("compliance"), B>>],
        [ci |-> TRUE, nodes |-> <<B, Lit("standard"), B>>],
        [ci |-> TRUE, nodes |-> <<B, Lit("code"), B>>],
        [ci |-> TRUE, nodes |-> <<B, Lit("permit"), B>>],
        [ci |-> TRUE, nodes |-> <<B, Lit("inspection"), B>>],
        [ci |-> TRUE, nodes |-> <<B, Lit("submittal")>>],
        [ci |-> TRUE, nodes |-> <<B, Lit("form"), B>>],
        [ci |-> TRUE, nodes |-> <<B, Lit("exhibit"), B>>],
        [ci |-> TRUE, nodes |-> <<B, Lit("attachment"), B>>],
        [ci |-> TRUE, nodes |-> <<B, Lit("appendix"), B>>],
        [ci |-> TRUE, nodes |-> <<B, Lit("addendum"), B>>],
        [ci |-> TRUE, nodes |-> <<B, Lit("specification")>>],
        [ci |-> TRUE, nodes |-> <<B, Lit("minority"), B>>],
        [ci |-> TRUE, nodes |-> <<B, Lit("mwbe"), B>>],
        [ci |-> TRUE, nodes |-> <<B, Lit("dbe"), B>>],
        [ci |-> TRUE, nodes |-> <<B, Lit("union"), B>>],
        [ci |-> TRUE, nodes |-> <<B, Lit("prevailing"), Ws0, Lit("wage")>>],
        [ci |-> TRUE, nodes |-> <<B, Lit("davis"), Dot, Lit("bacon")>>] >>],
    [name |-> "WARRANTY", patterns |-> <<
        [ci |-> TRUE, nodes |-> <<B, Lit("warranty"), B>>],
        [ci |-> TRUE, nodes |-> <<B, Lit("warranties"), B>>],
        [ci |-> TRUE, nodes |-> <<B, Lit("guarantee"), B>>],
        [ci |-> TRUE, nodes |-> <<B, Lit("maintenance"), B>>],
        [ci |-> TRUE, nodes |-> <<B, Lit("service"), Ws0, Lit("level")>>],
        [ci |-> TRUE, nodes |-> <<B, Lit("sla"), B>>],
        [ci |-> TRUE, nodes |-> <<B, Lit("response"), Ws0, Lit("time")>>],
        [ci |-> TRUE, nodes |-> <<B, Lit("spare"), Ws0, Lit("part")>>],
        [ci |-> TRUE, nodes |-> <<B, Lit("preventative")>>],
        [ci |-> TRUE, nodes |-> <<B, Lit("preventive")>>],
        [ci |-> TRUE, nodes |-> <<B, Lit("annual"), Ws0, Lit("check")>>],
        [ci |-> TRUE, nodes |-> <<B, Lit("support"), B>>] >>],
    [name |-> "SOFTWARE", patterns |-> <<
        [ci |-> TRUE, nodes |-> <<B, Lit("cms"), B>>],
        [ci |-> TRUE, nodes |-> <<B, Lit("content"), Ws0, Lit("management")>>],
        [ci |-> TRUE, nodes |-> <<B, Lit("livesync"), B>>],
        [ci |-> TRUE, nodes |-> <<B, Lit("software"), B>>],
        [ci |-> TRUE, nodes |-> <<B, Lit("control"), Ws0, Lit("system")>>],
        [ci |-> TRUE, nodes |-> <<B, Lit("processor"), B>>],
        [ci |-> TRUE, nodes |-> <<B, Lit("media"), Ws0, Lit("player")>>],
        [ci |-> TRUE, nodes |-> <<B, Lit("novastar"), B>>],
        [ci |-> TRUE, nodes |-> <<B, Lit("colorlight"), B>>],
        [ci |-> TRUE, nodes |-> <<B, Lit("brightwall"), B>>],
        [ci |-> TRUE, nodes |-> <<B, Lit("scaling"), B>>],
        [ci |-> TRUE, nodes |-> <<B, Lit("network")>>] >>],
    [name |-> "LEGAL", patterns |-> <<
        [ci |-> TRUE, nodes |-> <<B, Lit("indemnif")>>],
        [ci |-> TRUE, nodes |-> <<B, Lit("liabilit")>>],
        [ci |-> TRUE, nodes |-> <<B, Lit("insurance"), B>>],
        [ci |-> TRUE, nodes |-> <<B, Lit("bond"), Opt(<<<<Lit("ing")>>>>), B>>],
        [ci |-> TRUE, nodes |-> <<B, Lit("contract"), B>>],
        [ci |-> TRUE, nodes |-> <<B, Lit("term"), Chr({"s"}, 0, 1), Ws0, Grp(<<<<Lit("and")>>, <<Lit("&")>>>>), Ws0, Lit("condition")>>],
        [ci |-> TRUE, nodes |-> <<B, Lit("dispute"), B>>],
        [ci |-> TRUE, nodes |-> <<B, Lit("arbitration"), B>>],
        [ci |-> TRUE, nodes |-> <<B, Lit("governing"), Ws0, Lit("law")>>],
        [ci |-> TRUE, nodes |-> <<B, Lit("jurisdiction"), B>>],
        [ci |-> TRUE, nodes |-> <<B, Lit("termination"), B>>],
        [ci |-> TRUE, nodes |-> <<B, Lit("force"), Ws0, Lit("majeure")>>],
        [ci |-> TRUE, nodes |-> <<B, Lit("confidential")>>],
        [ci |-> TRUE, nodes |-> <<B, Lit("non"), Dot, Lit("disclosure")>>],
        [ci |-> TRUE, nodes |-> <<B, Lit("nda"), B>>] >>] >>

RISK_PATTERNS == <<
    [name |-> "Liquidated Damages", patterns |-> <<
        [ci |-> TRUE, nodes |-> <<Lit("liquidated"), Ws1, Lit("damages")>>],
        [ci |-> FALSE, nodes |-> <<B, Lit("LD"), B>>],
        [ci |-> TRUE, nodes |-> <<Lit("daily"), Ws1, Lit("penalty")>>] >>],
    [name |-> "Performance Bond", patterns |-> <<
        [ci |-> TRUE, nodes |-> <<Lit("performance"), Ws1, Lit("bond")>>],
        [ci |-> TRUE, nodes |-> <<Lit("surety"), Ws1, Lit("bond")>>] >>],
    [name |-> "Payment Terms", patterns |-> <<
        [ci |-> TRUE, nodes |-> <<Lit("net"), Ws1, Lit("30")>>],
        [ci |-> TRUE, nodes |-> <<Lit("net"), Ws1, Lit("45")>>],
        [ci |-> TRUE, nodes |-> <<Lit("net"), Ws1, Lit("60")>>],
        [ci |-> TRUE, nodes |-> <<Lit("payment"), Ws1, Lit("terms")>>],
        [ci |-> TRUE, nodes |-> <<Lit("progress"), Ws1, Lit("payment")>>] >>],
    [name |-> "Retainage", patterns |-> <<
        [ci |-> TRUE, nodes |-> <<Lit("retainage")>>],
        [ci |-> TRUE, nodes |-> <<Lit("retention")>>],
        [ci |-> TRUE, nodes |-> <<Lit("holdback")>>] >>],
    [name |-> "Change Order", patterns |-> <<
        [ci |-> TRUE, nodes |-> <<Lit("change"), Ws1, Lit("order")>>],
        [ci |-> TRUE, nodes |-> <<Lit("variation"), Ws1, Lit("order")>>],
        [ci |-> TRUE, nodes |-> <<Lit("scope"), Ws1, Lit("change")>>] >>],
    [name |-> "Force Majeure", patterns |-> <<
        [ci |-> TRUE, nodes |-> <<Lit("force"), Ws1, Lit("majeure")>>],
        [ci |-> TRUE, nodes |-> <<Lit("act"), Ws1, Lit("of"), Ws1, Lit("god")>>] >>],
    [name |-> "Indemnification", patterns |-> <<
        [ci |-> TRUE, nodes |-> <<Lit("indemnif")>>],
        [ci |-> TRUE, nodes |-> <<Lit("hold"), Ws1, Lit("harmless")>>] >>],
    [name |-> "Insurance", patterns |-> <<
        [ci |-> TRUE, nodes |-> <<Lit("insurance")>>],
        [ci |-> TRUE, nodes |-> <<Lit("certificate"), Ws1, Lit("of"), Ws1, Lit("insurance")>>],
        [ci |-> TRUE, nodes |-> <<Lit("additional"), Ws1, Lit("insured")>>] >>],
    [name |-> "Termination", patterns |-> <<
        [ci |-> TRUE, nodes |-> <<Lit("termination"), Ws1, Lit("for"), Ws1, Lit("cause")>>],
        [ci |-> TRUE, nodes |-> <<Lit("termination"), Ws1, Lit("for"), Ws1, Lit("convenience")>>] >>],
    [name |-> "Dispute Resolution", patterns |-> <<
        [ci |-> TRUE, nodes |-> <<Lit("arbitration")>>],
        [ci |-> TRUE, nodes |-> <<Lit("mediation")>>],
        [ci |-> TRUE, nodes |-> <<Lit("dispute"), Ws1, Lit("resolution")>>] >>] >>


\* String.prototype.replace(/[.\-_/\\]/g, "")
StrippedChars == {".", "-", "_", "/", "\\"}
StripChar(c) == IF c \in StrippedChars THEN "" ELSE c

normalizeText(text) == Trim(CollapseSpace(MapChars(StripChar, ToLower(text))))

normalizeKeyword(keyword) == normalizeText(keyword)

RECURSIVE countOccurrencesFrom(_, _, _)
countOccurrencesFrom(text, keyword, startIndex) ==
    LET idx == IndexOf(text, keyword, startIndex)
    IN  IF idx = 0 THEN 0
        ELSE 1 + countOccurrencesFrom(text, keyword, idx + Len(keyword))

countOccurrences(text, keyword) == countOccurrencesFrom(text, keyword, 1)

\* pattern.test(text)
TestPattern(pattern, text, lowerText) ==
    Test(pattern.nodes, IF pattern.ci THEN lowerText ELSE text)

detectPatternHits(text, lowerText, bucket) ==
    Cardinality({p \in 1..Len(bucket.patterns) : TestPattern(bucket.patterns[p], text, lowerText)})

\* The length below which a text can be a drawing candidate.
DrawingMaxLen == 350
DrawingWords == <<"scale", "detail", "elevation", "section", "plan", "drawing", "dwg">>
AvSheetPattern == <<B, Lit("av-"), Chr(Digits, 1, Unbounded)>>
AnyDigitPattern == <<Chr(Digits, 1, Unbounded)>>

isDrawingCandidate(text) ==
    LET lowerText == ToLower(text)
    IN  /\ Len(Trim(text)) < DrawingMaxLen
        /\ \/ \E w \in 1..Len(DrawingWords) : Includes(lowerText, DrawingWords[w])
           \/ Test(AvSheetPattern, lowerText)
           \/ /\ Includes(lowerText, "sheet")
              /\ (Includes(lowerText, "of") \/ Test(AnyDigitPattern, text))

\* The keyword lists as the loops use them: normalizeKeyword of every entry.
NormalizedList(list) == [i \in 1..Len(list) |-> normalizeKeyword(list[i])]
MustKeepNormalized == NormalizedList(MUST_KEEP_PHRASES)
SignalNormalized == NormalizedList(SIGNAL_KEYWORDS)
NoiseNormalized == NormalizedList(NOISE_KEYWORDS)
CategoryNormalized ==
    [c \in 1..Len(KEYWORD_CATEGORIES) |-> NormalizedList(KEYWORD_CATEGORIES[c].keywords)]

Range(f) == {f[i] : i \in DOMAIN f}

RECURSIVE SumSeq(_)
SumSeq(q) == IF Len(q) = 0 THEN 0 ELSE Head(q) + SumSeq(Tail(q))

\* The entries of list whose count is positive, in list order.
RECURSIVE HitEntries(_, _, _)
HitEntries(list, counts, i) ==
    IF i > Len(list) THEN <<>>
    ELSE (IF counts[i] > 0 THEN <<list[i]>> ELSE <<>>) \o HitEntries(list, counts, i + 1)

\* Set.prototype.add of every entry of more, in order, to the ordered set q.
RECURSIVE AddAll(_, _)
AddAll(q, more) ==
    IF Len(more) = 0 THEN q
    ELSE AddAll(IF Head(more) \in Range(q) THEN q ELSE Append(q, Head(more)), Tail(more))

RECURSIVE FlattenSeq(_)
FlattenSeq(qq) == IF Len(qq) = 0 THEN <<>> ELSE Head(qq) \o FlattenSeq(Tail(qq))

MinOf(a, b) == IF a <= b THEN a ELSE b

\* The largest r with r * r <= n, by bisection on lo..hi.
RECURSIVE IsqrtIn(_, _, _)
IsqrtIn(n, lo, hi) ==
    IF lo >= hi THEN lo
    ELSE LET mid == (lo + hi + 1) \div 2
         IN  IF mid * mid <= n THEN IsqrtIn(n, mid, hi) ELSE IsqrtIn(n, lo, mid - 1)

Isqrt(n) == IsqrtIn(n, 0, MinOf(n, 46340))

\* Weights of the score, in hundredths (the density hits in tenths).
MustKeepWeight == 60
SignalWeight == 20
NoiseWeight == 18
CategoryKeywordStep == 90
CategoryKeywordCap == 400
CategoryPatternStep == 45
CategoryPatternCap == 250
RiskStep == 80
RiskCap == 300
BoosterStep == 70
DrawingBonus == 140
RelevantThreshold == 700
MaybeThreshold == 250
MaxReasons == 3
MaxCategoryHits == 6
MaxRiskHits == 6
MaxMatchedKeywords == 10

\* densityHits / Math.sqrt(Math.max(length, 1)) for positive hits, the hits
\* themselves otherwise, in hundredths rounded to the nearest (as the final
\* toFixed(2) rounds the sum, whose other terms are whole hundredths).
\* hitsTenths is densityHits * 10.
keywordDensityScore(hitsTenths, length) ==
    IF hitsTenths > 0
    THEN (Isqrt((400 * hitsTenths * hitsTenths) \div (IF length > 1 THEN length ELSE 1)) + 1) \div 2
    ELSE 10 * hitsTenths

\* Mutant: a noise occurrence adds to the density hits.
densityHitsOf_NoiseAdds(mustCount, signalCount, noiseCount) ==
    MustKeepWeight * mustCount + SignalWeight * signalCount + NoiseWeight * noiseCount

\* densityHits after the three keyword loops, in tenths.
densityHitsOf(mustCount, signalCount, noiseCount) ==
    MustKeepWeight * mustCount + SignalWeight * signalCount - NoiseWeight * noiseCount

\* Mutant: the must-keep override is missing.
LabelOf_NoOverride(hasMustKeep, score) ==
    IF score >= RelevantThreshold THEN "relevant"
    ELSE IF score >= MaybeThreshold THEN "maybe"
    ELSE "irrelevant"

LabelOf(hasMustKeep, score) ==
    IF hasMustKeep \/ score >= RelevantThreshold THEN "relevant"
    ELSE IF score >= MaybeThreshold THEN "maybe"
    ELSE "irrelevant"

MandatoryPattern == <<Grp(<<<<B, Lit("mandatory"), B>>, <<B, Lit("must"), B>>>>)>>
DeadlinePattern == <<Grp(<<<<B, Lit("deadline"), B>>, <<B, Lit("due date"), B>>, <<B, Lit("submission"), B>>>>)>>

QuoteReason(kind, word) == kind \o ": \"" \o word \o "\""
ReasonsOf(kind, words) == [i \in 1..Len(words) |-> QuoteReason(kind, words[i])]

scoreRfpChunk(text) ==
    LET normalizedText == normalizeText(text)
        rawLower == ToLower(text)
        mustCounts == [i \in 1..Len(MUST_KEEP_PHRASES) |->
                          countOccurrences(normalizedText, MustKeepNormalized[i])]
        signalCounts == [i \in 1..Len(SIGNAL_KEYWORDS) |->
                            countOccurrences(normalizedText, SignalNormalized[i])]
        noiseCounts == [i \in 1..Len(NOISE_KEYWORDS) |->
                           countOccurrences(normalizedText, NoiseNormalized[i])]
        mustHits == HitEntries(MUST_KEEP_PHRASES, mustCounts, 1)
        signalHits == HitEntries(SIGNAL_KEYWORDS, signalCounts, 1)
        noiseHits == HitEntries(NOISE_KEYWORDS, noiseCounts, 1)
        densityHits == densityHitsOf(SumSeq(mustCounts), SumSeq(signalCounts),
                                     SumSeq(noiseCounts))
        categoryCounts == [c \in 1..Len(KEYWORD_CATEGORIES) |->
                              [k \in 1..Len(KEYWORD_CATEGORIES[c].keywords) |->
                                  countOccurrences(normalizedText, CategoryNormalized[c][k])]]
        categoryTotals == [c \in 1..Len(KEYWORD_CATEGORIES) |-> SumSeq(categoryCounts[c])]
        categoryKeywordHits ==
            FlattenSeq([c \in 1..Len(KEYWORD_CATEGORIES) |->
                           HitEntries(KEYWORD_CATEGORIES[c].keywords, categoryCounts[c], 1)])
        patternCounts == [b \in 1..Len(CATEGORY_PATTERNS) |->
                             detectPatternHits(text, rawLower, CATEGORY_PATTERNS[b])]
        categoryNames == [c \in 1..Len(KEYWORD_CATEGORIES) |-> KEYWORD_CATEGORIES[c].name]
        bucketNames == [b \in 1..Len(CATEGORY_PATTERNS) |-> CATEGORY_PATTERNS[b].name]
        categoryHits == AddAll(HitEntries(categoryNames, categoryTotals, 1),
                               HitEntries(bucketNames, patternCounts, 1))
        categoryScore ==
            SumSeq([c \in 1..Len(KEYWORD_CATEGORIES) |->
                       IF categoryTotals[c] > 0
                       THEN MinOf(CategoryKeywordCap, CategoryKeywordStep * categoryTotals[c])
                       ELSE 0])
            + SumSeq([b \in 1..Len(CATEGORY_PATTERNS) |->
                         IF patternCounts[b] > 0
                         THEN MinOf(CategoryPatternCap, CategoryPatternStep * patternCounts[b])
                         ELSE 0])
        riskCounts == [r \in 1..Len(RISK_PATTERNS) |->
                          detectPatternHits(text, rawLower, RISK_PATTERNS[r])]
        riskNames == [r \in 1..Len(RISK_PATTERNS) |-> RISK_PATTERNS[r].name]
        riskHits == HitEntries(riskNames, riskCounts, 1)
        riskScore == SumSeq([r \in 1..Len(RISK_PATTERNS) |->
                                IF riskCounts[r] > 0
                                THEN MinOf(RiskCap, RiskStep * riskCounts[r]) ELSE 0])
        boosterFlags == [b \in 1..Len(HIGH_VALUE_BOOSTERS) |->
                            IF TestPattern(HIGH_VALUE_BOOSTERS[b], text, rawLower) THEN 1 ELSE 0]
        boosterSources == [b \in 1..Len(HIGH_VALUE_BOOSTERS) |-> HIGH_VALUE_BOOSTERS[b].source]
        boosterHits == HitEntries(boosterSources, boosterFlags, 1)
        boosterScore == BoosterStep * Len(boosterHits)
        matchedKeywords == AddAll(AddAll(AddAll(mustHits, signalHits), noiseHits),
                                  categoryKeywordHits)
        reasons == ReasonsOf("must-keep", mustHits) \o ReasonsOf("noise", noiseHits)
                   \o (IF Test(MandatoryPattern, rawLower) THEN <<"mandatory language">> ELSE <<>>)
                   \o (IF Test(DeadlinePattern, rawLower)
                       THEN <<"submission/deadline language">> ELSE <<>>)
        drawingCandidate == isDrawingCandidate(text)
        drawingScore == IF drawingCandidate THEN DrawingBonus ELSE 0
        score == keywordDensityScore(densityHits, Len(normalizedText))
                 + categoryScore + riskScore + boosterScore + drawingScore
        hasMustKeep == \E i \in 1..Len(matchedKeywords) :
                          matchedKeywords[i] \in Range(MUST_KEEP_PHRASES)
    IN  [label |-> LabelOf(hasMustKeep, score),
         score |-> score,
         reason |-> IF Len(reasons) = 0 THEN "keyword-density analysis"
                    ELSE Join(SliceSeq(reasons, MaxReasons), ", "),
         categoryHits |-> SliceSeq(categoryHits, MaxCategoryHits),
         riskHits |-> SliceSeq(riskHits, MaxRiskHits),
         matchedKeywords |-> SliceSeq(matchedKeywords, MaxMatchedKeywords),
         boosterHits |-> boosterHits,
         drawingCandidate |-> drawingCandidate]

(***************************************************************************)
(* The classifier harness: a text is assembled from fragments and scored.  *)
(***************************************************************************)
ScoreFragments ==
    {"tte ",
     "division 26 ",
     "waiver harassment ",
     "pixel pitch ",
     "must meet the deadline ",
     "net 30 retainage holdback plan $5 9 mm year 2 12 sq "}

ScoreText == Concat(scoreIn)

ScoreInit ==
    /\ scoreIn = <<>>
    /\ scoreOut = None
    /\ scorePc = "build"
    \* The other harnesses are not running.
    /\ chunkerIn = <<>>
    /\ chunkerRaw = ""
    /\ chunkerOut = <<>>
    /\ chunkerPc = "idle"
    /\ wbIn = None
    /\ wbBuilt = None
    /\ wbSheets = None
    /\ wbParsed = None
    /\ wbPc = "idle"
    /\ diffIn = None
    /\ diffOut = None
    /\ diffPc = "idle"
    /\ estIn = None
    /\ estOut = None
    /\ estPc = "idle"
    /\ page = None
    /\ pageTimers = <<>>
    /\ pageReads = <<>>
    /\ pageExtract = None
    /\ pageConsole = <<>>
    /\ latestAnalysis = <<>>
    /\ pageOps = 0

ScoreAddFragment ==
    /\ scorePc = "build"
    /\ Len(scoreIn) < MaxScoreFrags
    /\ \E f \in ScoreFragments : scoreIn' = Append(scoreIn, f)
    /\ UNCHANGED <<scoreOut, scorePc>>
    /\ UNCHANGED notScoreVars

ScoreChunk ==
    /\ scorePc = "build"
    /\ scoreOut' = scoreRfpChunk(ScoreText)
    /\ scorePc' = "done"
    /\ UNCHANGED scoreIn
    /\ UNCHANGED notScoreVars

ScoreNext == ScoreAddFragment \/ ScoreChunk

SpecScore == ScoreInit /\ [][ScoreNext]_vars

ScoreDone == scorePc = "done"

(***************************************************************************)
(* Claims about the classifier.                                            *)
(***************************************************************************)
\* The normalized text holds an entry of the list (normalized as well).
TextHoldsAnyOf(list) ==
    \E i \in 1..Len(list) : Includes(normalizeText(ScoreText), normalizeText(list[i]))

\* C1: the label is relevant if the text holds a must-keep phrase (whatever
\* the score, a negative one included) or the score is at least 7; otherwise
\* maybe if the score is at least 2.5; otherwise irrelevant.
C1_LabelThresholds ==
    ScoreDone =>
        scoreOut.label =
            (IF TextHoldsAnyOf(MUST_KEEP_PHRASES) \/ scoreOut.score >= 700 THEN "relevant"
             ELSE IF scoreOut.score >= 250 THEN "maybe"
             ELSE "irrelevant")

\* A text with a must-keep phrase and a negative score was labelled relevant.
C1_Witness ==
    /\ ScoreDone
    /\ TextHoldsAnyOf(MUST_KEEP_PHRASES)
    /\ scoreOut.score < 0
    /\ scoreOut.label = "relevant"

\* The text holds a noise keyword and earns no must-keep, signal or
\* category hit.
NoiseOnlyText ==
    /\ ScoreDone
    /\ TextHoldsAnyOf(NOISE_KEYWORDS)
    /\ ~TextHoldsAnyOf(MUST_KEEP_PHRASES)
    /\ ~TextHoldsAnyOf(SIGNAL_KEYWORDS)
    /\ scoreOut.categoryHits = <<>>

NoBonus ==
    /\ scoreOut.riskHits = <<>>
    /\ scoreOut.boosterHits = <<>>
    /\ ~scoreOut.drawingCandidate

\* C2 as stated: a text with a noise keyword and no must-keep, signal or
\* category hit gets a strictly negative score and the label irrelevant,
\* whatever risk, booster or drawing bonus it earns.
C2_NoiseOnlyNegative ==
    NoiseOnlyText => (scoreOut.score < 0 /\ scoreOut.label = "irrelevant")

\* C2 amended: a text with a noise keyword and no must-keep, signal or
\* category hit that earns no risk-pattern, booster or drawing-candidate
\* bonus gets a strictly negative score and the label irrelevant.
C2_NoiseOnlyNegativeNoBonus ==
    (NoiseOnlyText /\ NoBonus) => (scoreOut.score < 0 /\ scoreOut.label = "irrelevant")

\* A noise-only text without any bonus was scored.
C2_Witness ==
    /\ NoiseOnlyText
    /\ NoBonus
    /\ scoreOut.score < 0
    /\ scoreOut.label = "irrelevant"

(***************************************************************************)
(* The structured workbook (lib/rfpWorkbook.ts).                           *)
(* Numbers (scores, counts) are kept in hundredths.  The value of a sheet  *)
(* cell or of an optional field is a string, a number or undefined/null.   *)
(***************************************************************************)
Str(s) == [t |-> "s", s |-> s, n |-> 0]
Num(n) == [t |-> "n", s |-> "", n |-> n]
Missing == [t |-> "u", s |-> "", n |-> 0]

DigitChars == "0123456789"

\* String(n) for a natural number n.
RECURSIVE NatToString(_)
NatToString(n) ==
    IF n < 10 THEN CharAt(DigitChars, n + 1)
    ELSE NatToString(n \div 10) \o CharAt(DigitChars, (n % 10) + 1)

\* String(x) for a number x of at most two decimals, given in hundredths.
NumberToString(h) ==
    LET a == IF h < 0 THEN -h ELSE h
        d1 == (a % 100) \div 10
        d2 == a % 10
    IN  (IF h < 0 THEN "-" ELSE "")
        \o NatToString(a \div 100)
        \o (IF a % 100 = 0 THEN ""
            ELSE "." \o CharAt(DigitChars, d1 + 1)
                     \o (IF d2 = 0 THEN "" ELSE CharAt(DigitChars, d2 + 1)))

DigitValue(c) == CHOOSE d \in 0..9 : CharAt(DigitChars, d + 1) = c

RECURSIVE DigitsToNat(_, _)
DigitsToNat(s, sofar) ==
    IF s = "" THEN sofar
    ELSE DigitsToNat(SubSeq(s, 2, Len(s)), 10 * sofar + DigitValue(CharAt(s, 1)))

\* The decimal literals of at most two decimals.
DecimalLiteral == <<Opt(<<<<Lit("-")>>>>), Chr(Digits, 1, Unbounded),
                    Opt(<<<<Lit("."), Chr(Digits, 1, 2)>>>>)>>

\* Number(s) || 0, in hundredths: the value of a decimal literal, and 0 for
\* the empty string and for a string Number() turns into NaN.
NumberOrZero(s) ==
    IF s = "" \/ MatchEnd(DecimalLiteral, 1, s, 1) # Len(s) + 1 THEN 0
    ELSE LET neg == CharAt(s, 1) = "-"
             body == IF neg THEN SubSeq(s, 2, Len(s)) ELSE s
             dot == IndexOf(body, ".", 1)
             whole == IF dot = 0 THEN body ELSE SubSeq(body, 1, dot - 1)
             frac == IF dot = 0 THEN "" ELSE SubSeq(body, dot + 1, Len(body))
             cents == IF Len(frac) = 0 THEN 0
                      ELSE IF Len(frac) = 1 THEN 10 * DigitsToNat(frac, 0)
                      ELSE DigitsToNat(frac, 0)
             a == 100 * DigitsToNat(whole, 0) + cents
         IN  IF neg THEN -a ELSE a

\* value || fallback for an optional string
OrElse(value, fallback) == IF value.t = "s" /\ value.s # "" THEN value.s ELSE fallback

cleanText(input) == Trim(CollapseSpace(input))

\* The length a cleaned line must reach to be classified.
MinLineLen == 8

KeepLine(line) == Len(line) >= MinLineLen

splitLines(text) ==
    LET parts == SplitNewlines(text, 1)
    IN  SelectSeq([i \in 1..Len(parts) |-> cleanText(parts[i])], KeepLine)

selectCategory(hits) == IF Len(hits) = 0 THEN "General" ELSE hits[1]

toSourceLabel(chunk) == chunk.title

\* /\b(must|required|shall|submittal|compliance|deliverable|specification)\b/i
REQUIREMENT_PATTERN == [ci |-> TRUE, nodes |-> <<B, Grp(<<<<Lit("must")>>,
    <<Lit("required")>>, <<Lit("shall")>>, <<Lit("submittal")>>, <<Lit("compliance")>>,
    <<Lit("deliverable")>>, <<Lit("specification")>>>>), B>>]

\* /\b(assumption|excluded|not included|by others|owner provided|by owner)\b/i
ASSUMPTION_PATTERN == [ci |-> TRUE, nodes |-> <<B, Grp(<<<<Lit("assumption")>>,
    <<Lit("excluded")>>, <<Lit("not included")>>, <<Lit("by others")>>,
    <<Lit("owner provided")>>, <<Lit("by owner")>>>>), B>>]

\* /\b(deadline|due|completion|milestone|notice to proceed|ntp|calendar day|timeline)\b/i
SCHEDULE_PATTERN == [ci |-> TRUE, nodes |-> <<B, Grp(<<<<Lit("deadline")>>, <<Lit("due")>>,
    <<Lit("completion")>>, <<Lit("milestone")>>, <<Lit("notice to proceed")>>,
    <<Lit("ntp")>>, <<Lit("calendar day")>>, <<Lit("timeline")>>>>), B>>]

\* /\b(liability|indemnif|bond|insurance|penalty|arbitration|retainage|liquidated damages)\b/i
RISK_PATTERN == [ci |-> TRUE, nodes |-> <<B, Grp(<<<<Lit("liability")>>,
    <<Lit("indemnif")>>, <<Lit("bond")>>, <<Lit("insurance")>>, <<Lit("penalty")>>,
    <<Lit("arbitration")>>, <<Lit("retainage")>>, <<Lit("liquidated damages")>>>>), B>>]

\* /\b(?:jan|feb|mar|apr|may|jun|jul|aug|sep|oct|nov|dec)[a-z]*\s+\d{1,2},?\s+\d{2,4}\b|\b\d{1,2}\/\d{1,2}\/\d{2,4}\b|\b20\d{2}\b/i
DATE_PATTERN == [ci |-> TRUE, nodes |-> <<Grp(<<<<B, Grp(<<<<Lit("jan")>>, <<Lit("feb")>>,
    <<Lit("mar")>>, <<Lit("apr")>>, <<Lit("may")>>, <<Lit("jun")>>, <<Lit("jul")>>,
    <<Lit("aug")>>, <<Lit("sep")>>, <<Lit("oct")>>, <<Lit("nov")>>, <<Lit("dec")>>>>),
    Chr(LowerSet, 0, Unbounded), Ws1, Chr(Digits, 1, 2), Chr({","}, 0, 1), Ws1,
    Chr(Digits, 2, 4), B>>, <<B, Chr(Digits, 1, 2), Lit("/"), Chr(Digits, 1, 2), Lit("/"),
    Chr(Digits, 2, 4), B>>, <<B, Lit("20"), Chr(Digits, 2, 2), B>>>>)>>]

\* /\$[\d,]+(?:\.\d{2})?/g
AMOUNT_PATTERN == [ci |-> FALSE, nodes |-> <<Lit("$"), Chr(Digits \cup {","}, 1, Unbounded),
    Opt(<<<<Lit("."), Chr(Digits, 2, 2)>>>>)>>]

\* /\b(must|required|shall)\b/i
HighPriorityPattern == [ci |-> TRUE, nodes |-> <<B, Grp(<<<<Lit("must")>>,
    <<Lit("required")>>, <<Lit("shall")>>>>), B>>]

\* /\b(liquidated damages|termination|indemnif|penalty)\b/i
HighSeverityPattern == [ci |-> TRUE, nodes |-> <<B, Grp(<<<<Lit("liquidated damages")>>,
    <<Lit("termination")>>, <<Lit("indemnif")>>, <<Lit("penalty")>>>>), B>>]

\* /\((chunk-\d+)\)/i
CitationPattern == [ci |-> TRUE, nodes |-> <<Lit("("), Grp(<<<<Lit("chunk-"),
    Chr(Digits, 1, Unbounded)>>>>), Lit(")")>>]

\* String.prototype.match for a pattern without /g: <<start, end>> of the
\* first match in text (end is the position after it), <<0, 0>> for null.
MatchSpan(pattern, text) ==
    FirstMatch(pattern.nodes, IF pattern.ci THEN ToLower(text) ELSE text, 1)

\* String.prototype.match for a /g pattern: the matches from left to right.
RECURSIVE MatchAllFrom(_, _, _)
MatchAllFrom(pattern, text, from) ==
    LET m == FirstMatch(pattern.nodes, text, from)
    IN  IF m[1] = 0 THEN <<>>
        ELSE <<SubSeq(text, m[1], m[2] - 1)>>
             \o MatchAllFrom(pattern, text, IF m[2] > m[1] THEN m[2] ELSE m[2] + 1)

\* The lengths the primary texts are cut to, and the cap of a collection.
ItemMaxLen == 120
MilestoneMaxLen == 120
RiskMaxLen == 140
AssumptionMaxLen == 140
MaxRecords == 200

\* The first of text, item, milestone and risk that is a non-empty string.
PrimaryText(item) ==
    IF "text" \in DOMAIN item /\ item.text # "" THEN item.text
    ELSE IF "item" \in DOMAIN item /\ item.item # "" THEN item.item
    ELSE IF "milestone" \in DOMAIN item /\ item.milestone # "" THEN item.milestone
    ELSE IF "risk" \in DOMAIN item /\ item.risk # "" THEN item.risk
    ELSE ""

\* Mutant: the key keeps the case of the text.
dedupeKey_KeepsCase(item) == cleanText(PrimaryText(item))

\* The key dedupeByText files an item under.
dedupeKey(item) == ToLower(cleanText(PrimaryText(item)))

RECURSIVE dedupeLoop(_, _, _, _)
dedupeLoop(items, i, seen, out) ==
    IF i > Len(items) THEN out
    ELSE LET key == dedupeKey(items[i])
         IN  IF key = "" \/ key \in seen
             THEN dedupeLoop(items, i + 1, seen, out)
             ELSE dedupeLoop(items, i + 1, seen \cup {key}, Append(out, items[i]))

dedupeByText(items) == dedupeLoop(items, 1, {}, <<>>)

\* Mutant: the chunks are not filtered by label.
IsSelected_KeepsAll(chunk) == TRUE

IsSelected(chunk) == chunk.label # "irrelevant"

\* The lines of the selected chunks in the order the two loops visit them,
\* each with its chunk.
RECURSIVE LinesOf(_)
LinesOf(selected) ==
    IF Len(selected) = 0 THEN <<>>
    ELSE LET chunk == Head(selected)
             lines == splitLines(chunk.text)
         IN  [i \in 1..Len(lines) |->
                 [chunk |-> chunk, line |-> lines[i], lower |-> ToLower(lines[i])]]
             \o LinesOf(Tail(selected))

IsRequirement(e) == TestPattern(REQUIREMENT_PATTERN, e.line, e.lower)
IsSchedule(e) ==
    TestPattern(SCHEDULE_PATTERN, e.line, e.lower) \/ TestPattern(DATE_PATTERN, e.line, e.lower)
IsRisk(e) == Len(e.chunk.riskHits) > 0 \/ TestPattern(RISK_PATTERN, e.line, e.lower)
IsAssumption(e) == TestPattern(ASSUMPTION_PATTERN, e.line, e.lower)

\* The records pushed onto requirements, in order; reqIndex is the
\* position of the push.
requirementRecords(entries) ==
    LET hits == SelectSeq(entries, IsRequirement)
    IN  [n \in 1..Len(hits) |->
            [id |-> "REQ-" \o NatToString(n),
             text |-> hits[n].line,
             category |-> selectCategory(hits[n].chunk.categoryHits),
             priority |-> IF TestPattern(HighPriorityPattern, hits[n].line, hits[n].lower)
                          THEN "High" ELSE "Medium",
             source |-> toSourceLabel(hits[n].chunk),
             citation |-> hits[n].chunk.id]]

\* The amounts of the lines, line by line, each with its line.
RECURSIVE AmountsOf(_)
AmountsOf(entries) ==
    IF Len(entries) = 0 THEN <<>>
    ELSE LET amounts == MatchAllFrom(AMOUNT_PATTERN, Head(entries).line, 1)
         IN  [i \in 1..Len(amounts) |-> [entry |-> Head(entries), amount |-> amounts[i]]]
             \o AmountsOf(Tail(entries))

\* Mutant: priceIndex is never incremented.
pricingRecords_OneId(entries) ==
    LET hits == AmountsOf(entries)
    IN  [n \in 1..Len(hits) |->
            [id |-> "PRC-1",
             item |-> SliceTo(hits[n].entry.line, ItemMaxLen),
             amount |-> hits[n].amount,
             source |-> toSourceLabel(hits[n].entry.chunk),
             citation |-> hits[n].entry.chunk.id]]

pricingRecords(entries) ==
    LET hits == AmountsOf(entries)
    IN  [n \in 1..Len(hits) |->
            [id |-> "PRC-" \o NatToString(n),
             item |-> SliceTo(hits[n].entry.line, ItemMaxLen),
             amount |-> hits[n].amount,
             source |-> toSourceLabel(hits[n].entry.chunk),
             citation |-> hits[n].entry.chunk.id]]

dueTextOf(line) ==
    LET dateMatch == MatchSpan(DATE_PATTERN, line)
    IN  IF dateMatch[1] # 0 THEN SubSeq(line, dateMatch[1], dateMatch[2] - 1) ELSE "TBD"

scheduleRecords(entries) ==
    LET hits == SelectSeq(entries, IsSchedule)
    IN  [n \in 1..Len(hits) |->
            [id |-> "SCH-" \o NatToString(n),
             milestone |-> SliceTo(hits[n].line, MilestoneMaxLen),
             dueText |-> dueTextOf(hits[n].line),
             source |-> toSourceLabel(hits[n].chunk),
             citation |-> hits[n].chunk.id]]

riskRecords(entries) ==
    LET hits == SelectSeq(entries, IsRisk)
    IN  [n \in 1..Len(hits) |->
            [id |-> "RSK-" \o NatToString(n),
             risk |-> SliceTo(hits[n].line, RiskMaxLen),
             severity |-> IF TestPattern(HighSeverityPattern, hits[n].line, hits[n].lower)
                          THEN "High" ELSE "Medium",
             source |-> toSourceLabel(hits[n].chunk),
             citation |-> hits[n].chunk.id]]

assumptionRecords(entries) ==
    LET hits == SelectSeq(entries, IsAssumption)
    IN  [n \in 1..Len(hits) |->
            [id |-> "ASM-" \o NatToString(n),
             text |-> SliceTo(hits[n].line, AssumptionMaxLen),
             source |-> toSourceLabel(hits[n].chunk),
             citation |-> hits[n].chunk.id]]

\* buildStructuredWorkbook(chunks, meta) at the time now.
buildStructuredWorkbook(chunks, meta, now) ==
    LET selected == SelectSeq(chunks, IsSelected)
        entries == LinesOf(selected)
    IN  [project |->
            [projectTitle |-> OrElse(meta.projectTitle, "RFP Project"),
             clientName |-> OrElse(meta.clientName, "Unknown Client"),
             venueName |-> OrElse(meta.venueName, "Unknown Venue"),
             generatedAt |-> now],
         requirements |-> SliceSeq(dedupeByText(requirementRecords(entries)), MaxRecords),
         pricing |-> SliceSeq(dedupeByText(pricingRecords(entries)), MaxRecords),
         schedule |-> SliceSeq(dedupeByText(scheduleRecords(entries)), MaxRecords),
         risks |-> SliceSeq(dedupeByText(riskRecords(entries)), MaxRecords),
         assumptions |-> SliceSeq(dedupeByText(assumptionRecords(entries)), MaxRecords),
         sources |-> [i \in 1..Len(selected) |->
                         [id |-> selected[i].id, title |-> selected[i].title,
                          score |-> selected[i].score, label |-> selected[i].label]]]

(***************************************************************************)
(* The sheets of a workbook (buildWorkbookArtifacts in app/page.tsx): one  *)
(* row per record under the header row of its sheet, read back as one row  *)
(* object per record keyed by the headers.                                 *)
(***************************************************************************)
MapSeq(F(_), q) == [i \in 1..Len(q) |-> F(q[i])]

ProjectSheet(model) ==
    <<[Field |-> Str("Project Title"), Value |-> Str(model.project.projectTitle)],
      [Field |-> Str("Client"), Value |-> Str(model.project.clientName)],
      [Field |-> Str("Venue"), Value |-> Str(model.project.venueName)],
      [Field |-> Str("Generated At"), Value |-> Str(model.project.generatedAt)],
      [Field |-> Str("Requirements"), Value |-> Num(100 * Len(model.requirements))],
      [Field |-> Str("Pricing Lines"), Value |-> Num(100 * Len(model.pricing))],
      [Field |-> Str("Schedule Items"), Value |-> Num(100 * Len(model.schedule))],
      [Field |-> Str("Risks"), Value |-> Num(100 * Len(model.risks))],
      [Field |-> Str("Assumptions"), Value |-> Num(100 * Len(model.assumptions))]>>

RequirementRow(item) ==
    [ID |-> Str(item.id), Requirement |-> Str(item.text), Category |-> Str(item.category),
     Priority |-> Str(item.priority), Source |-> Str(item.source),
     Citation |-> Str(item.citation)]

PricingRow(item) ==
    [ID |-> Str(item.id), Item |-> Str(item.item), Amount |-> Str(item.amount),
     Source |-> Str(item.source), Citation |-> Str(item.citation)]

ScheduleRow(item) ==
    [ID |-> Str(item.id), Milestone |-> Str(item.milestone), Due |-> Str(item.dueText),
     Source |-> Str(item.source), Citation |-> Str(item.citation)]

RiskRow(item) ==
    [ID |-> Str(item.id), Risk |-> Str(item.risk), Severity |-> Str(item.severity),
     Source |-> Str(item.source), Citation |-> Str(item.citation)]

AssumptionRow(item) ==
    [ID |-> Str(item.id), Assumption |-> Str(item.text), Source |-> Str(item.source),
     Citation |-> Str(item.citation)]

SourceRow(source) ==
    ("Chunk ID" :> Str(source.id)) @@ ("Title" :> Str(source.title))
    @@ ("Score" :> Num(source.score)) @@ ("Label" :> Str(source.label))
    @@ ("Citation" :> Str(source.id))

buildWorkbookArtifacts(model) ==
    [Project |-> ProjectSheet(model),
     Requirements |-> MapSeq(RequirementRow, model.requirements),
     Pricing |-> MapSeq(PricingRow, model.pricing),
     Schedule |-> MapSeq(ScheduleRow, model.schedule),
     Risks |-> MapSeq(RiskRow, model.risks),
     Assumptions |-> MapSeq(AssumptionRow, model.assumptions),
     Sources |-> MapSeq(SourceRow, model.sources)]

(***************************************************************************)
(* parseStructuredWorkbookFromSheets (lib/rfpWorkbook.ts).                 *)
(***************************************************************************)
\* row[key]: undefined when the row has no such column.
Cell(row, key) == IF key \in DOMAIN row THEN row[key] ELSE Missing

\* sheets[name] || []
SheetOf(sheets, name) == IF name \in DOMAIN sheets THEN sheets[name] ELSE <<>>

asString(value, fallback) ==
    IF value.t = "s" THEN Trim(value.s)
    ELSE IF value.t = "n" THEN NumberToString(value.n)
    ELSE fallback

\* a || b for two strings
FirstNonEmpty(a, b) == IF a # "" THEN a ELSE b

inferCitationFromSource(source) ==
    LET match == MatchSpan(CitationPattern, source)
    IN  IF match[1] = 0 THEN "" ELSE SubSeq(source, match[1] + 1, match[2] - 2)

\* rowsToMap(rows, keyField, valueField).get(key) || fallback: the value of
\* the last row filed under the key.
MapGetOr(rows, keyField, valueField, key, fallback) ==
    LET hits == {i \in 1..Len(rows) : asString(Cell(rows[i], keyField), "") = key}
    IN  IF hits = {} THEN fallback
        ELSE FirstNonEmpty(asString(Cell(rows[Max(hits)], valueField), ""), fallback)

\* Mutant: a blank Citation is not recovered from the Source.
citationOfRow_CitationOnly(row) == asString(Cell(row, "Citation"), "")

citationOfRow(row) ==
    FirstNonEmpty(asString(Cell(row, "Citation"), ""),
                  inferCitationFromSource(asString(Cell(row, "Source"), "")))

HighOrMedium(value) == IF value = "High" THEN "High" ELSE "Medium"

parseRequirements(rows) ==
    [i \in 1..Len(rows) |->
        [id |-> asString(Cell(rows[i], "ID"), "REQ-" \o NatToString(i)),
         text |-> asString(Cell(rows[i], "Requirement"), ""),
         category |-> asString(Cell(rows[i], "Category"), "General"),
         priority |-> HighOrMedium(asString(Cell(rows[i], "Priority"), "Medium")),
         source |-> asString(Cell(rows[i], "Source"), ""),
         citation |-> citationOfRow(rows[i])]]

parsePricing(rows) ==
    [i \in 1..Len(rows) |->
        [id |-> asString(Cell(rows[i], "ID"), "PRC-" \o NatToString(i)),
         item |-> asString(Cell(rows[i], "Item"), ""),
         amount |-> asString(Cell(rows[i], "Amount"), ""),
         source |-> asString(Cell(rows[i], "Source"), ""),
         citation |-> citationOfRow(rows[i])]]

parseSchedule(rows) ==
    [i \in 1..Len(rows) |->
        [id |-> asString(Cell(rows[i], "ID"), "SCH-" \o NatToString(i)),
         milestone |-> asString(Cell(rows[i], "Milestone"), ""),
         dueText |-> asString(Cell(rows[i], "Due"), "TBD"),
         source |-> asString(Cell(rows[i], "Source"), ""),
         citation |-> citationOfRow(rows[i])]]

parseRisks(rows) ==
    [i \in 1..Len(rows) |->
        [id |-> asString(Cell(rows[i], "ID"), "RSK-" \o NatToString(i)),
         risk |-> asString(Cell(rows[i], "Risk"), ""),
         severity |-> HighOrMedium(asString(Cell(rows[i], "Severity"), "Medium")),
         source |-> asString(Cell(rows[i], "Source"), ""),
         citation |-> citationOfRow(rows[i])]]

parseAssumptions(rows) ==
    [i \in 1..Len(rows) |->
        [id |-> asString(Cell(rows[i], "ID"), "ASM-" \o NatToString(i)),
         text |-> asString(Cell(rows[i], "Assumption"), ""),
         source |-> asString(Cell(rows[i], "Source"), ""),
         citation |-> citationOfRow(rows[i])]]

parseSources(rows) ==
    [i \in 1..Len(rows) |->
        [id |-> asString(Cell(rows[i], "Chunk ID"), ""),
         title |-> asString(Cell(rows[i], "Title"), ""),
         score |-> NumberOrZero(asString(Cell(rows[i], "Score"), "0")),
         label |-> asString(Cell(rows[i], "Label"), "maybe")]]

\* Mutant: rows without their primary text are kept.
HasPrimaryText_KeepsAll(row) == TRUE

HasPrimaryText(row) == PrimaryText(row) # ""
HasIdOrTitle(row) == row.id # "" \/ row.title # ""

\* The value returned when no structured record was found.
Null == [null |-> TRUE]

\* parseStructuredWorkbookFromSheets(sheets) at the time now.
parseStructuredWorkbookFromSheets(sheets, now) ==
    LET projectRows == SheetOf(sheets, "Project")
        requirements == SelectSeq(parseRequirements(SheetOf(sheets, "Requirements")), HasPrimaryText)
        pricing == SelectSeq(parsePricing(SheetOf(sheets, "Pricing")), HasPrimaryText)
        schedule == SelectSeq(parseSchedule(SheetOf(sheets, "Schedule")), HasPrimaryText)
        risks == SelectSeq(parseRisks(SheetOf(sheets, "Risks")), HasPrimaryText)
        assumptions == SelectSeq(parseAssumptions(SheetOf(sheets, "Assumptions")), HasPrimaryText)
        sources == SelectSeq(parseSources(SheetOf(sheets, "Sources")), HasIdOrTitle)
    IN  IF /\ Len(requirements) = 0
           /\ Len(pricing) = 0
           /\ Len(schedule) = 0
           /\ Len(risks) = 0
           /\ Len(assumptions) = 0
        THEN Null
        ELSE [project |->
                 [projectTitle |-> MapGetOr(projectRows, "Field", "Value", "Project Title",
                                            "Imported RFP Project"),
                  clientName |-> MapGetOr(projectRows, "Field", "Value", "Client",
                                          "Unknown Client"),
                  venueName |-> MapGetOr(projectRows, "Field", "Value", "Venue",
                                         "Unknown Venue"),
                  generatedAt |-> MapGetOr(projectRows, "Field", "Value", "Generated At", now)],
              requirements |-> requirements,
              pricing |-> pricing,
              schedule |-> schedule,
              risks |-> risks,
              assumptions |-> assumptions,
              sources |-> sources]

(***************************************************************************)
(* toChunkTitle (lib/rfpFilter): the title of a chunk is the first of its  *)
(* first four non-empty lines that looks like a heading or is short.       *)
(***************************************************************************)
TitleScanLines == 4
TitleLineMax == 110

\* /^(?:SECTION|ARTICLE|PART|CHAPTER|DIVISION)\s+[\dIVXA-Z]/i
SectionHeading == <<Grp(<<<<Lit("section")>>, <<Lit("article")>>, <<Lit("part")>>,
    <<Lit("chapter")>>, <<Lit("division")>>>>), Ws1, Chr(Digits \cup LowerSet, 1, 1)>>

\* /^\d{1,2}(?:\.\d{1,2}){0,3}\s+[A-Z]/
NumberedHeading == <<Chr(Digits, 1, 2),
    Opt(<<<<Lit("."), Chr(Digits, 1, 2),
            Opt(<<<<Lit("."), Chr(Digits, 1, 2),
                    Opt(<<<<Lit("."), Chr(Digits, 1, 2)>>>>)>>>>)>>>>),
    Ws1, Chr(UpperSet, 1, 1)>>

\* /^[A-Z][A-Z\s&\-/]{8,}$/
CapitalHeading == <<Chr(UpperSet, 1, 1),
    Chr(UpperSet \cup WhiteSpace \cup {"&", "-", "/"}, 8, Unbounded)>>

\* /^(?:EXHIBIT|APPENDIX|ATTACHMENT|ADDENDUM)\s/i
ExhibitHeading == <<Grp(<<<<Lit("exhibit")>>, <<Lit("appendix")>>, <<Lit("attachment")>>,
    <<Lit("addendum")>>>>), Chr(WhiteSpace, 1, 1)>>

IsTitleLine(line) ==
    \/ MatchesFrom(SectionHeading, 1, ToLower(line), 1)
    \/ MatchesFrom(NumberedHeading, 1, line, 1)
    \/ MatchEnd(CapitalHeading, 1, line, 1) = Len(line) + 1
    \/ MatchesFrom(ExhibitHeading, 1, ToLower(line), 1)
    \/ Len(line) < TitleLineMax

\* toChunkTitle(text, index), index counted from 0.
toChunkTitle(text, index) ==
    LET lines == SliceSeq(SelectSeq(MapTrim(SplitStr(text, "\n")), KeepNonEmpty), TitleScanLines)
        titles == {i \in 1..Len(lines) : IsTitleLine(lines[i])}
    IN  IF titles = {} THEN "Section " \o NatToString(index + 1) ELSE lines[Min(titles)]

(***************************************************************************)
(* The workbook harness.  A list of chunks is assembled line by line, with *)
(* the ids and titles runRelevanceAnalysis gives them and a classification *)
(* drawn from ChunkKinds; buildStructuredWorkbook builds the workbook,     *)
(* buildWorkbookArtifacts lays it out in sheets and                        *)
(* parseStructuredWorkbookFromSheets reads the sheets back.  The sheets of *)
(* a file that this program did not write can be opened instead.           *)
(***************************************************************************)
MaxWbChunks == 2
MaxWbLines == 2

LongLine == "Allowance of $90 covers conduits, junction boxes, pull strings, cable tray, anchors, sealant, labels, testing, cleanup, touch-up paint and freight to the site"

WbLines == {
    "Contractor shall pay $5 then $7,000.50 and $12.00",
    "contractor  SHALL pay $5 then $7,000.50 and $12.00",
    "Submittal due Jan 5, 2025",
    "Retainage and penalty by others",
    LongLine,
    "Insurer to indemnify owner",
    "n/a" }

\* label, score (in hundredths), categoryHits and riskHits of a chunk.
ChunkKinds == {
    [label |-> "relevant", score |-> 850, categoryHits |-> <<"Electrical", "Commercial">>,
     riskHits |-> <<>>],
    [label |-> "maybe", score |-> 305, categoryHits |-> <<>>, riskHits |-> <<"Retainage">>],
    [label |-> "irrelevant", score |-> -180, categoryHits |-> <<>>, riskHits |-> <<>>] }

NoMeta == [clientName |-> Missing, venueName |-> Missing, projectTitle |-> Missing]
WbMetas == {NoMeta,
            [clientName |-> Str("City of Reno"), venueName |-> Str("Reno Arena"),
             projectTitle |-> Str("Arena Display Upgrade")]}

BuildTime == "2024-05-01T10:00:00.000Z"
ImportTime == "2024-05-02T10:00:00.000Z"

\* The chunk runRelevanceAnalysis makes of part i (from 0) of the text.
ChunkOf(i, text, kind) ==
    [id |-> "chunk-" \o NatToString(i), title |-> toChunkTitle(text, i), text |-> text,
     label |-> kind.label, score |-> kind.score, categoryHits |-> kind.categoryHits,
     riskHits |-> kind.riskHits]

\* The number of lines of a text without blank lines.
LineCount(text) == Len(SplitStr(text, "\n"))

RECURSIVE TotalLines(_)
TotalLines(chunks) ==
    IF Len(chunks) = 0 THEN 0 ELSE LineCount(Head(chunks).text) + TotalLines(Tail(chunks))

\* Sheets of files this program did not write: an older export that keeps
\* the chunk in the source label, with and without its Sources sheet; a
\* hand-edited file whose citation names no listed source; a file with
\* rows to skip and columns missing; a file without structured rows; a
\* file whose structured rows all lack their primary text; files with one
\* row, of one column, in the Schedule and in the Assumptions sheet.
LegacyRequirement ==
    [ID |-> Str("REQ-1"), Requirement |-> Str("Provide LED display"),
     Category |-> Str("Display Hardware"), Priority |-> Str("High"),
     Source |-> Str("Scope of Work (chunk-3)")]

ForeignFiles == {
    [Requirements |-> <<LegacyRequirement>>,
     Sources |-> <<SourceRow([id |-> "chunk-3", title |-> "Scope of Work", score |-> 720,
                              label |-> "relevant"])>>],
    [Requirements |-> <<LegacyRequirement>>],
    [Pricing |-> <<[ID |-> Num(700), Item |-> Str(" Freight "), Amount |-> Str("$40"),
                    Source |-> Str("Fees"), Citation |-> Str("chunk-9")]>>,
     Sources |-> <<("Chunk ID" :> Str("chunk-0")) @@ ("Title" :> Str("Fees"))
                   @@ ("Score" :> Str("3.5")) @@ ("Label" :> Str(""))>>],
    [Risks |-> <<[Risk |-> Str("Liquidated damages apply"), Severity |-> Str("Critical")],
                 [ID |-> Str("RSK-9"), Risk |-> Str("  \t"), Severity |-> Str("High")]>>,
     Project |-> <<[Field |-> Str("Client"), Value |-> Str("ANC")],
                   [Field |-> Str("Client"), Value |-> Str(" City of Reno ")]>>],
    [Project |-> <<[Field |-> Str("Project Title"), Value |-> Str("Notes")]>>,
     Sources |-> <<("Title" :> Str("Cover page"))>>],
    [Schedule |-> <<[ID |-> Str("SCH-1"), Milestone |-> Str(" "), Due |-> Str("Jan 5, 2025")]>>,
     Assumptions |-> <<[ID |-> Str("ASM-1"), Source |-> Str("Terms")]>>,
     Sources |-> <<("Chunk ID" :> Str("chunk-0")) @@ ("Title" :> Str("Terms"))>>],
    [Schedule |-> <<[Milestone |-> Str("Kickoff")]>>],
    [Assumptions |-> <<[Assumption |-> Str("Power by others"), Citation |-> Str("  "),
                        Source |-> Str("Terms (chunk-12) rev (chunk-4)")],
                       [Assumption |-> Str("Permits by owner"), Citation |-> Str(" "),
                        Source |-> Str("Terms (chunk-x)")],
                       [Assumption |-> Str("Fence by owner"), Citation |-> Str("chunk-7"),
                        Source |-> Str("Terms (chunk-2)")]>>],
    [Assumptions |-> <<[Assumption |-> Num(0)]>>] }

WorkbookInit ==
    /\ wbIn \in {[chunks |-> <<>>, meta |-> meta] : meta \in WbMetas}
    /\ wbBuilt = None
    /\ wbSheets = None
    /\ wbParsed = None
    /\ wbPc = "edit"
    \* The other harnesses are not running.
    /\ chunkerIn = <<>>
    /\ chunkerRaw = ""
    /\ chunkerOut = <<>>
    /\ chunkerPc = "idle"
    /\ scoreIn = <<>>
    /\ scoreOut = None
    /\ scorePc = "idle"
    /\ diffIn = None
    /\ diffOut = None
    /\ diffPc = "idle"
    /\ estIn = None
    /\ estOut = None
    /\ estPc = "idle"
    /\ page = None
    /\ pageTimers = <<>>
    /\ pageReads = <<>>
    /\ pageExtract = None
    /\ pageConsole = <<>>
    /\ latestAnalysis = <<>>
    /\ pageOps = 0

\* A chunk with a first line joins the list.
WbAddChunk ==
    /\ wbPc = "edit"
    /\ Len(wbIn.chunks) < MaxWbChunks
    /\ TotalLines(wbIn.chunks) < MaxWbLines
    /\ \E kind \in ChunkKinds, line \in WbLines :
           wbIn' = [wbIn EXCEPT !.chunks = Append(@, ChunkOf(Len(@), line, kind))]
    /\ UNCHANGED <<wbBuilt, wbSheets, wbParsed, wbPc>>
    /\ UNCHANGED notWbVars

\* The last chunk gets one more line.
WbAddLine ==
    /\ wbPc = "edit"
    /\ Len(wbIn.chunks) > 0
    /\ TotalLines(wbIn.chunks) < MaxWbLines
    /\ \E line \in WbLines :
           LET n == Len(wbIn.chunks)
               last == wbIn.chunks[n]
           IN  wbIn' = [wbIn EXCEPT !.chunks[n] =
                            ChunkOf(n - 1, last.text \o "\n" \o line, last)]
    /\ UNCHANGED <<wbBuilt, wbSheets, wbParsed, wbPc>>
    /\ UNCHANGED notWbVars

\* generateStructuredWorkbook: nothing happens without chunks.
WbBuild ==
    /\ wbPc = "edit"
    /\ Len(wbIn.chunks) > 0
    /\ wbBuilt' = buildStructuredWorkbook(wbIn.chunks, wbIn.meta, BuildTime)
    /\ wbPc' = "built"
    /\ UNCHANGED <<wbIn, wbSheets, wbParsed>>
    /\ UNCHANGED notWbVars

\* The workbook is laid out in sheets.
WbExport ==
    /\ wbPc = "built"
    /\ wbSheets' = buildWorkbookArtifacts(wbBuilt)
    /\ wbPc' = "exported"
    /\ UNCHANGED <<wbIn, wbBuilt, wbParsed>>
    /\ UNCHANGED notWbVars

\* The sheets of a foreign file are read.
WbOpenForeign ==
    /\ wbPc = "edit"
    /\ Len(wbIn.chunks) = 0
    /\ wbSheets' \in ForeignFiles
    /\ wbPc' = "exported"
    /\ UNCHANGED <<wbIn, wbBuilt, wbParsed>>
    /\ UNCHANGED notWbVars

\* importWorkbookXlsx hands the sheets to the parser.
WbParse ==
    /\ wbPc = "exported"
    /\ wbParsed' = parseStructuredWorkbookFromSheets(wbSheets, ImportTime)
    /\ wbPc' = "parsed"
    /\ UNCHANGED <<wbIn, wbBuilt, wbSheets>>
    /\ UNCHANGED notWbVars

WorkbookNext ==
    \/ WbAddChunk
    \/ WbAddLine
    \/ WbBuild
    \/ WbExport
    \/ WbOpenForeign
    \/ WbParse

SpecWorkbook ==
    WorkbookInit /\ [][WorkbookNext]_vars

IsNone(value) == "none" \in DOMAIN value
IsNull(value) == "null" \in DOMAIN value

(***************************************************************************)
(* Claims about the workbook.                                              *)
(***************************************************************************)
SeqRange(q) == {q[i] : i \in 1..Len(q)}

\* The citations of the records of a workbook, and the ids of its sources.
CitationsOf(w) ==
    {r.citation : r \in SeqRange(w.requirements)} \cup {r.citation : r \in SeqRange(w.pricing)}
    \cup {r.citation : r \in SeqRange(w.schedule)} \cup {r.citation : r \in SeqRange(w.risks)}
    \cup {r.citation : r \in SeqRange(w.assumptions)}

SourceIdsOf(w) == {source.id : source \in SeqRange(w.sources)}

CitationsResolve(w) == \A c \in CitationsOf(w) : c = "" \/ c \in SourceIdsOf(w)

\* C5: in every workbook the program produces, built from chunks or parsed
\* from imported sheet rows, the citation of every record of the five
\* collections is empty or the id of an entry of the workbook's sources.
C5_CitationsResolve ==
    /\ ~IsNone(wbBuilt) => CitationsResolve(wbBuilt)
    /\ (wbPc = "parsed" /\ ~IsNull(wbParsed)) => CitationsResolve(wbParsed)

\* The part of C5 about buildStructuredWorkbook alone.
BuiltCitationsResolve == ~IsNone(wbBuilt) => CitationsResolve(wbBuilt)

RecordCount(w) ==
    Len(w.requirements) + Len(w.pricing) + Len(w.schedule) + Len(w.risks) + Len(w.assumptions)

\* C6: a built workbook laid out in sheets and parsed back has the same
\* five collections, the same sources and the same project fields but
\* generatedAt, and its citations resolve (stated here for the workbooks
\* that hold at least one record).
C6_RoundTrip ==
    (wbPc = "parsed" /\ ~IsNone(wbBuilt) /\ RecordCount(wbBuilt) > 0) =>
        /\ ~IsNull(wbParsed)
        /\ wbParsed.requirements = wbBuilt.requirements
        /\ wbParsed.pricing = wbBuilt.pricing
        /\ wbParsed.schedule = wbBuilt.schedule
        /\ wbParsed.risks = wbBuilt.risks
        /\ wbParsed.assumptions = wbBuilt.assumptions
        /\ wbParsed.sources = wbBuilt.sources
        /\ wbParsed.project.projectTitle = wbBuilt.project.projectTitle
        /\ wbParsed.project.clientName = wbBuilt.project.clientName
        /\ wbParsed.project.venueName = wbBuilt.project.venueName
        /\ CitationsResolve(wbParsed)

\* The lines the builder classifies, and per collection the records it
\* pushes before dedupeByText, the records it returns and their primary
\* texts.
WbEntries == LinesOf(SelectSeq(wbIn.chunks, IsSelected))

Pushed ==
    <<requirementRecords(WbEntries), pricingRecords(WbEntries), scheduleRecords(WbEntries),
      riskRecords(WbEntries), assumptionRecords(WbEntries)>>

Kept ==
    <<wbBuilt.requirements, wbBuilt.pricing, wbBuilt.schedule, wbBuilt.risks,
      wbBuilt.assumptions>>

PrimaryField(c, r) ==
    CASE c = 1 -> r.text
      [] c = 2 -> r.item
      [] c = 3 -> r.milestone
      [] c = 4 -> r.risk
      [] c = 5 -> r.text

\* The primary text with white space collapsed and in lower case.
NormalizedPrimary(c, r) == ToLower(Trim(CollapseSpace(PrimaryField(c, r))))

\* C9: within each collection of a built workbook no two records have the
\* same normalized primary text, and the record kept for a text is the
\* first record pushed with that text, in chunk-then-line order.
C9_DedupeKeepsFirst ==
    wbPc = "built" =>
        LET pushed == Pushed
            kept == Kept
            pushedText == [c \in 1..5 |->
                              [k \in 1..Len(pushed[c]) |-> NormalizedPrimary(c, pushed[c][k])]]
            keptText == [c \in 1..5 |->
                            [i \in 1..Len(kept[c]) |-> NormalizedPrimary(c, kept[c][i])]]
        IN  \A c \in 1..5 :
                /\ \A i, j \in 1..Len(kept[c]) : i # j => keptText[c][i] # keptText[c][j]
                /\ \A i \in 1..Len(kept[c]) :
                       \E k \in 1..Len(pushed[c]) :
                           /\ pushed[c][k] = kept[c][i]
                           /\ \A h \in 1..(k - 1) : pushedText[c][h] # keptText[c][i]
                /\ \A k \in 1..Len(pushed[c]) :
                       \E i \in 1..Len(kept[c]) : keptText[c][i] = pushedText[c][k]

\* Two requirement lines that differ in case and white space only were
\* pushed, and the first of them alone was kept.
C9_Witness ==
    /\ wbPc = "built"
    /\ Len(Pushed[1]) = 2
    /\ wbIn.chunks[1].text # ToLower(wbIn.chunks[1].text)
    /\ Pushed[1][1].text # Pushed[1][2].text
    /\ wbBuilt.requirements = <<Pushed[1][1]>>

\* C10: for every line of a relevant or maybe chunk, the pricing collection
\* of the built workbook holds one record for each dollar amount of the
\* line, each with the line cut to 120 characters as its item.
C10_OneRecordPerAmount ==
    ~IsNone(wbBuilt) =>
        \A e \in SeqRange(WbEntries) :
            LET amounts == MatchAllFrom(AMOUNT_PATTERN, e.line, 1)
                item == SliceTo(e.line, ItemMaxLen)
            IN  /\ \A a \in SeqRange(amounts) :
                       \E r \in SeqRange(wbBuilt.pricing) : r.item = item /\ r.amount = a
                /\ Cardinality({i \in 1..Len(wbBuilt.pricing) : wbBuilt.pricing[i].item = item})
                       >= Len(amounts)

IdPrefixes == <<"REQ-", "PRC-", "SCH-", "RSK-", "ASM-">>

\* C11: each collection of a built workbook with n records carries the ids
\* PREFIX-1, ..., PREFIX-n in list order, with no gap where deduplication
\* removed a record.
C11_IdsSequential ==
    wbPc = "built" =>
        LET kept == Kept
        IN  \A c \in 1..5 :
                \A i \in 1..Len(kept[c]) : kept[c][i].id = IdPrefixes[c] \o NatToString(i)

\* The number an id ends with.
IdSuffix(id) == DigitsToNat(SubSeq(id, 5, Len(id)), 0)

\* C12: within each collection of a built workbook the ids are pairwise
\* distinct and their numeric suffixes strictly increase in list order.
C12_IdsIncrease ==
    wbPc = "built" =>
        LET kept == Kept
        IN  \A c \in 1..5 :
                \A i, j \in 1..Len(kept[c]) :
                    i < j => /\ kept[c][i].id # kept[c][j].id
                             /\ IdSuffix(kept[c][i].id) < IdSuffix(kept[c][j].id)

\* Two pricing records survive deduplication, the second one pushed after
\* records that were removed.
C12_Witness ==
    /\ wbPc = "built"
    /\ Len(wbBuilt.pricing) = 2
    /\ wbBuilt.pricing[1].id = "PRC-1"
    /\ IdSuffix(wbBuilt.pricing[2].id) > 2

\* The chunks labeled relevant or maybe, in input order.
RECURSIVE UsableChunks(_)
UsableChunks(chunks) ==
    IF Len(chunks) = 0 THEN <<>>
    ELSE (IF Head(chunks).label \in {"relevant", "maybe"} THEN <<Head(chunks)>> ELSE <<>>)
         \o UsableChunks(Tail(chunks))

\* C13: no record of a built workbook cites an irrelevant chunk, and its
\* sources are exactly the relevant and maybe chunks of the input (id,
\* title, score, label) in input order, whether or not they gave a record.
C13_OnlyRelevantOrMaybe ==
    wbPc = "built" =>
        LET usable == UsableChunks(wbIn.chunks)
        IN  /\ \A chunk \in SeqRange(wbIn.chunks) :
                   chunk.label = "irrelevant" => chunk.id \notin CitationsOf(wbBuilt)
            /\ wbBuilt.sources =
                   [i \in 1..Len(usable) |->
                       [id |-> usable[i].id, title |-> usable[i].title,
                        score |-> usable[i].score, label |-> usable[i].label]]

\* An irrelevant chunk whose line states a requirement comes before a
\* usable chunk whose only line is too short to give a record: the workbook
\* has no record and the usable chunk alone as its source.
C13_Witness ==
    /\ wbPc = "built"
    /\ Len(wbIn.chunks) = 2
    /\ wbIn.chunks[1].label = "irrelevant"
    /\ TestPattern(REQUIREMENT_PATTERN, wbIn.chunks[1].text, ToLower(wbIn.chunks[1].text))
    /\ wbIn.chunks[2].label = "maybe"
    /\ RecordCount(wbBuilt) = 0
    /\ Len(wbBuilt.sources) = 1
    /\ wbBuilt.sources[1].id = "chunk-1"

\* The five structured sheets with the column of their primary text.
PrimaryColumns ==
    <<[sheet |-> "Requirements", column |-> "Requirement"],
      [sheet |-> "Pricing", column |-> "Item"],
      [sheet |-> "Schedule", column |-> "Milestone"],
      [sheet |-> "Risks", column |-> "Risk"],
      [sheet |-> "Assumptions", column |-> "Assumption"]>>

\* A cell that holds a number or a string with more than white space.
HoldsText(cell) == cell.t = "n" \/ (cell.t = "s" /\ Trim(cell.s) # "")

\* Some row of one of the five structured sheets has its primary text.
HasValidRow(sheets) ==
    \E c \in 1..5 :
        \E row \in SeqRange(SheetOf(sheets, PrimaryColumns[c].sheet)) :
            HoldsText(Cell(row, PrimaryColumns[c].column))

\* C14: parseStructuredWorkbookFromSheets returns null exactly when none of
\* the five structured sheets has a row with its primary text; Project and
\* Sources rows alone never give a workbook, one valid row always does.
C14_NullIffNoRecords ==
    wbPc = "parsed" => (IsNull(wbParsed) <=> ~HasValidRow(wbSheets))

\* A file with Sources rows and with structured rows that all lack their
\* primary text was parsed to null.
C14_Witness ==
    /\ wbPc = "parsed"
    /\ IsNull(wbParsed)
    /\ Len(SheetOf(wbSheets, "Sources")) > 0
    /\ Len(SheetOf(wbSheets, "Schedule")) > 0
    /\ Len(SheetOf(wbSheets, "Assumptions")) > 0

(***************************************************************************)
(* The workbook diff (buildDiffBucket and diffStructuredWorkbooks in       *)
(* app/page.tsx).  A Map is the list of its values in insertion order.     *)
(***************************************************************************)
MapHas(map, id) == \E k \in 1..Len(map) : map[k].id = id
MapGet(map, id) == map[CHOOSE k \in 1..Len(map) : map[k].id = id]

\* Map.prototype.set(item.id, item): a new key goes last, a known key keeps
\* its place and takes the new value.
MapSet(map, item) ==
    IF MapHas(map, item.id)
    THEN [k \in 1..Len(map) |-> IF map[k].id = item.id THEN item ELSE map[k]]
    ELSE Append(map, item)

\* new Map(items.map((item) => [item.id, item]))
RECURSIVE MapById(_, _)
MapById(items, map) ==
    IF Len(items) = 0 THEN map ELSE MapById(Tail(items), MapSet(map, Head(items)))

buildDiffBucket(previous, next, getLabel(_), isSameContent(_, _)) ==
    LET prevById == MapById(previous, <<>>)
        nextById == MapById(next, <<>>)
        IsAdded(nextItem) == ~MapHas(prevById, nextItem.id)
        IsEdited(nextItem) ==
            /\ MapHas(prevById, nextItem.id)
            /\ ~isSameContent(MapGet(prevById, nextItem.id), nextItem)
        IsRemoved(prevItem) == ~MapHas(nextById, prevItem.id)
    IN  [added |-> MapSeq(getLabel, SelectSeq(nextById, IsAdded)),
         edited |-> MapSeq(getLabel, SelectSeq(nextById, IsEdited)),
         removed |-> MapSeq(getLabel, SelectSeq(prevById, IsRemoved))]

RequirementLabel(item) == item.id \o ": " \o item.text
PricingLabel(item) == item.id \o ": " \o item.item \o " (" \o item.amount \o ")"
ScheduleLabel(item) == item.id \o ": " \o item.milestone \o " (" \o item.dueText \o ")"
RiskLabel(item) == item.id \o ": " \o item.risk
AssumptionLabel(item) == item.id \o ": " \o item.text

SameRequirement(a, b) ==
    a.text = b.text /\ a.category = b.category /\ a.priority = b.priority
    /\ a.citation = b.citation
SamePricing(a, b) == a.item = b.item /\ a.amount = b.amount /\ a.citation = b.citation
SameSchedule(a, b) ==
    a.milestone = b.milestone /\ a.dueText = b.dueText /\ a.citation = b.citation
SameRisk(a, b) == a.risk = b.risk /\ a.severity = b.severity /\ a.citation = b.citation
SameAssumption(a, b) == a.text = b.text /\ a.citation = b.citation

diffStructuredWorkbooks(previous, next) ==
    IF IsNull(previous) THEN Null
    ELSE [requirements |-> buildDiffBucket(previous.requirements, next.requirements,
                                           RequirementLabel, SameRequirement),
          pricing |-> buildDiffBucket(previous.pricing, next.pricing,
                                      PricingLabel, SamePricing),
          schedule |-> buildDiffBucket(previous.schedule, next.schedule,
                                       ScheduleLabel, SameSchedule),
          risks |-> buildDiffBucket(previous.risks, next.risks, RiskLabel, SameRisk),
          assumptions |-> buildDiffBucket(previous.assumptions, next.assumptions,
                                          AssumptionLabel, SameAssumption)]

(***************************************************************************)
(* The diff harness.  The records of one collection of a previous and of a *)
(* next workbook are put in one by one, each a variant of one record of    *)
(* the collection; there may be no previous workbook at all.               *)
(***************************************************************************)
MaxDiffRecords == 3

CollectionNames == <<"requirements", "pricing", "schedule", "risks", "assumptions">>

EmptyWorkbook ==
    [project |-> [projectTitle |-> "RFP Project", clientName |-> "Unknown Client",
                  venueName |-> "Unknown Venue", generatedAt |-> BuildTime],
     requirements |-> <<>>, pricing |-> <<>>, schedule |-> <<>>, risks |-> <<>>,
     assumptions |-> <<>>,
     sources |-> <<[id |-> "chunk-0", title |-> "Scope", score |-> 850, label |-> "relevant"],
                   [id |-> "chunk-1", title |-> "Terms", score |-> 305, label |-> "maybe"]>>]

\* A record and the records that differ from it in one field, in source
\* and citation, or in the id.
VariantsOf(base, changes) ==
    {base} \cup {[f \in DOMAIN base |-> IF f \in DOMAIN change THEN change[f] ELSE base[f]] :
                    change \in changes}

ProvenanceChanges ==
    {[source |-> "Terms"], [citation |-> "chunk-1"], [source |-> "Terms", citation |-> "chunk-1"]}

DiffRecords ==
    [requirements |->
        VariantsOf([id |-> "REQ-1", text |-> "text X", category |-> "Electrical",
                    priority |-> "High", source |-> "Scope", citation |-> "chunk-0"],
                   ProvenanceChanges \cup {[id |-> "REQ-2"], [text |-> "text Y"],
                                           [category |-> "General"], [priority |-> "Medium"]}),
     pricing |->
        VariantsOf([id |-> "PRC-1", item |-> "Freight", amount |-> "$40", source |-> "Scope",
                    citation |-> "chunk-0"],
                   ProvenanceChanges \cup {[id |-> "PRC-2"], [item |-> "Freight to site"],
                                           [amount |-> "$45"]}),
     schedule |->
        VariantsOf([id |-> "SCH-1", milestone |-> "Substantial completion", dueText |-> "TBD",
                    source |-> "Scope", citation |-> "chunk-0"],
                   ProvenanceChanges \cup {[id |-> "SCH-2"], [milestone |-> "Final completion"],
                                           [dueText |-> "Jan 5, 2025"]}),
     risks |->
        VariantsOf([id |-> "RSK-1", risk |-> "Liquidated damages", severity |-> "High",
                    source |-> "Scope", citation |-> "chunk-0"],
                   ProvenanceChanges \cup {[id |-> "RSK-2"], [risk |-> "Retainage"],
                                           [severity |-> "Medium"]}),
     assumptions |->
        VariantsOf([id |-> "ASM-1", text |-> "Power by others", source |-> "Scope",
                    citation |-> "chunk-0"],
                   ProvenanceChanges \cup {[id |-> "ASM-2"], [text |-> "Power by owner"]})]

DiffInit ==
    /\ diffIn \in {[coll |-> CollectionNames[c], previous |-> Null, next |-> EmptyWorkbook] :
                      c \in 1..5}
    /\ diffOut = None
    /\ diffPc = "build"
    \* The other harnesses are not running.
    /\ chunkerIn = <<>>
    /\ chunkerRaw = ""
    /\ chunkerOut = <<>>
    /\ chunkerPc = "idle"
    /\ scoreIn = <<>>
    /\ scoreOut = None
    /\ scorePc = "idle"
    /\ wbIn = None
    /\ wbBuilt = None
    /\ wbSheets = None
    /\ wbParsed = None
    /\ wbPc = "idle"
    /\ estIn = None
    /\ estOut = None
    /\ estPc = "idle"
    /\ page = None
    /\ pageTimers = <<>>
    /\ pageReads = <<>>
    /\ pageExtract = None
    /\ pageConsole = <<>>
    /\ latestAnalysis = <<>>
    /\ pageOps = 0

DiffCount ==
    Len(diffIn.next[diffIn.coll])
    + (IF IsNull(diffIn.previous) THEN 0 ELSE Len(diffIn.previous[diffIn.coll]))

\* A workbook without records was generated before.
DiffOpenPrevious ==
    /\ diffPc = "build"
    /\ IsNull(diffIn.previous)
    /\ diffIn' = [diffIn EXCEPT !.previous = EmptyWorkbook]
    /\ UNCHANGED <<diffOut, diffPc>>
    /\ UNCHANGED notDiffVars

DiffAddPrevious ==
    /\ diffPc = "build"
    /\ ~IsNull(diffIn.previous)
    /\ DiffCount < MaxDiffRecords
    /\ \E r \in DiffRecords[diffIn.coll] :
           diffIn' = [diffIn EXCEPT !.previous[diffIn.coll] = Append(@, r)]
    /\ UNCHANGED <<diffOut, diffPc>>
    /\ UNCHANGED notDiffVars

DiffAddNext ==
    /\ diffPc = "build"
    /\ DiffCount < MaxDiffRecords
    /\ \E r \in DiffRecords[diffIn.coll] :
           diffIn' = [diffIn EXCEPT !.next[diffIn.coll] = Append(@, r)]
    /\ UNCHANGED <<diffOut, diffPc>>
    /\ UNCHANGED notDiffVars

\* importWorkbookXlsx compares the workbook on screen with the imported one.
DiffRun ==
    /\ diffPc = "build"
    /\ diffOut' = diffStructuredWorkbooks(diffIn.previous, diffIn.next)
    /\ diffPc' = "done"
    /\ UNCHANGED diffIn
    /\ UNCHANGED notDiffVars

DiffNext ==
    \/ DiffOpenPrevious
    \/ DiffAddPrevious
    \/ DiffAddNext
    \/ DiffRun

SpecDiff == DiffInit /\ [][DiffNext]_vars

(***************************************************************************)
(* Claims about the diff.                                                  *)
(***************************************************************************)
DiffDone == diffPc = "done"

IdsOf(items) == {r.id : r \in SeqRange(items)}
UniqueIds(items) == \A i, j \in 1..Len(items) : i # j => items[i].id # items[j].id

\* The id a label starts with.
IdOfLabel(label) == SubSeq(label, 1, IndexOf(label, ":", 1) - 1)
LabelIds(labels) == {IdOfLabel(l) : l \in SeqRange(labels)}

\* The fields that carry the meaning of a record: neither its id nor its
\* provenance (source and citation).
SemanticFields ==
    [requirements |-> {"text", "category", "priority"}, pricing |-> {"item", "amount"},
     schedule |-> {"milestone", "dueText"}, risks |-> {"risk", "severity"},
     assumptions |-> {"text"}]

SameSemantics(name, a, b) == \A f \in SemanticFields[name] : a[f] = b[f]

\* Both workbooks keep the ids of each collection unique.
DiffIdsUnique ==
    \A c \in 1..5 :
        /\ UniqueIds(diffIn.previous[CollectionNames[c]])
        /\ UniqueIds(diffIn.next[CollectionNames[c]])

\* The ids present in both workbooks whose semantic fields differ.
ChangedIds(name) ==
    {n.id : n \in {n \in SeqRange(diffIn.next[name]) :
                      \E q \in SeqRange(diffIn.previous[name]) :
                          q.id = n.id /\ ~SameSemantics(name, q, n)}}

\* C7: the diff is null exactly when there is no previous workbook;
\* otherwise, in each collection, added lists exactly the ids only next
\* has, removed exactly the ids only previous has, and edited exactly the
\* ids both have whose content differs (stated for workbooks whose ids are
\* unique within each collection).
C7_DiffById ==
    DiffDone =>
        /\ IsNull(diffOut) <=> IsNull(diffIn.previous)
        /\ (~IsNull(diffIn.previous) /\ DiffIdsUnique) =>
               \A c \in 1..5 :
                   LET name == CollectionNames[c]
                       previous == IdsOf(diffIn.previous[name])
                       next == IdsOf(diffIn.next[name])
                   IN  /\ LabelIds(diffOut[name].added) = next \ previous
                       /\ LabelIds(diffOut[name].removed) = previous \ next
                       /\ LabelIds(diffOut[name].edited) = ChangedIds(name)

\* The part of C7 that does not depend on which fields are compared: null
\* exactly without a previous workbook, added and removed by id, and every
\* id whose semantic fields changed is edited and neither added nor removed.
DiffAddedRemovedById ==
    DiffDone =>
        /\ IsNull(diffOut) <=> IsNull(diffIn.previous)
        /\ (~IsNull(diffIn.previous) /\ DiffIdsUnique) =>
               \A c \in 1..5 :
                   LET name == CollectionNames[c]
                       previous == IdsOf(diffIn.previous[name])
                       next == IdsOf(diffIn.next[name])
                   IN  /\ LabelIds(diffOut[name].added) = next \ previous
                       /\ LabelIds(diffOut[name].removed) = previous \ next
                       /\ ChangedIds(name) \subseteq LabelIds(diffOut[name].edited)
                       /\ LabelIds(diffOut[name].edited) \subseteq (previous \cap next)

\* C8: a record with the same id in previous and next is reported as edited
\* only if one of its semantic fields differs; records that differ only in
\* source and/or citation are not reported as edited.
C8_ProvenanceNotEdited ==
    (DiffDone /\ ~IsNull(diffIn.previous) /\ DiffIdsUnique) =>
        \A c \in 1..5 :
            LabelIds(diffOut[CollectionNames[c]].edited) \subseteq ChangedIds(CollectionNames[c])

\* The part of C8 about the source alone: records that differ only in
\* source are not reported as edited.
SourceAloneNotEdited ==
    (DiffDone /\ ~IsNull(diffIn.previous) /\ DiffIdsUnique) =>
        \A c \in 1..5 :
            \A n \in SeqRange(diffIn.next[CollectionNames[c]]) :
                \A q \in SeqRange(diffIn.previous[CollectionNames[c]]) :
                    (q.id = n.id /\ [q EXCEPT !.source = n.source] = n) =>
                        n.id \notin LabelIds(diffOut[CollectionNames[c]].edited)

(***************************************************************************)
(* The estimator (lib/estimatorEngine.ts, rates from lib/rateTables).      *)
(* JavaScript numbers are modelled by exact decimal arithmetic: a natural  *)
(* number of any size is the list of its base-1000 digits, lowest first,   *)
(* without leading zeros.  Costs are counted in units of 10^-9 dollars,    *)
(* areas in units of 10^-4 square feet, rates in units of 10^-4, and the   *)
(* amounts money() has rounded in cents.  A double differs from the exact  *)
(* value by a relative error of about 10^-16; the texts of the harness     *)
(* give no value that close to a rounding boundary.                        *)
(***************************************************************************)
BigBase == 1000

RECURSIVE BigOf(_)
BigOf(n) == IF n = 0 THEN <<>> ELSE <<n % BigBase>> \o BigOf(n \div BigBase)

RECURSIVE BigToInt(_)
BigToInt(a) == IF Len(a) = 0 THEN 0 ELSE Head(a) + BigBase * BigToInt(Tail(a))

RECURSIVE BigAddCarry(_, _, _)
BigAddCarry(a, b, carry) ==
    IF Len(a) = 0 /\ Len(b) = 0 THEN BigOf(carry)
    ELSE LET x == IF Len(a) = 0 THEN 0 ELSE Head(a)
             y == IF Len(b) = 0 THEN 0 ELSE Head(b)
             sum == x + y + carry
         IN  <<sum % BigBase>>
             \o BigAddCarry(IF Len(a) = 0 THEN a ELSE Tail(a),
                            IF Len(b) = 0 THEN b ELSE Tail(b), sum \div BigBase)

BigAdd(a, b) == BigAddCarry(a, b, 0)

\* a * m for a number m below the base.
RECURSIVE BigMulDigit(_, _, _)
BigMulDigit(a, m, carry) ==
    IF Len(a) = 0 THEN BigOf(carry)
    ELSE LET product == Head(a) * m + carry
         IN  <<product % BigBase>> \o BigMulDigit(Tail(a), m, product \div BigBase)

RECURSIVE BigStrip(_)
BigStrip(a) ==
    IF Len(a) > 0 /\ a[Len(a)] = 0 THEN BigStrip(SubSeq(a, 1, Len(a) - 1)) ELSE a

RECURSIVE BigMul(_, _)
BigMul(a, b) ==
    IF Len(a) = 0 \/ Len(b) = 0 THEN <<>>
    ELSE BigStrip(BigAdd(BigMulDigit(a, Head(b), 0), <<0>> \o BigMul(a, Tail(b))))

\* floor(a / d) for a number d of at most six digits: <<quotient, remainder>>.
RECURSIVE BigDivLoop(_, _, _, _)
BigDivLoop(a, d, k, rem) ==
    IF k = 0 THEN <<<<>>, rem>>
    ELSE LET cur == rem * BigBase + a[k]
             rest == BigDivLoop(a, d, k - 1, cur % d)
         IN  <<Append(rest[1], cur \div d), rest[2]>>

BigDiv(a, d) == BigStrip(BigDivLoop(a, d, Len(a), 0)[1])

\* floor(a / (ds[1] * ... * ds[n]))
RECURSIVE BigDivAll(_, _)
BigDivAll(a, ds) == IF Len(ds) = 0 THEN a ELSE BigDivAll(BigDiv(a, Head(ds)), Tail(ds))

RECURSIVE BigProduct(_)
BigProduct(ms) == IF Len(ms) = 0 THEN BigOf(1) ELSE BigMul(BigOf(Head(ms)), BigProduct(Tail(ms)))

\* Math.round(a / d) for d = ds[1] * ... * ds[n]: floor((2a + d) / 2d).
RoundedQuotient(a, ds) ==
    BigToInt(BigDivAll(BigAdd(BigMulDigit(a, 2, 0), BigProduct(ds)), <<2>> \o ds))

\* ANC_VENDOR_RATES, ANC_BUDGET_RATES and ANC_BUNDLE_RATES (dollars; the
\* multipliers in tenths and hundredths, the rates in hundredths).
ANC_VENDOR_RATES ==
    [outdoor10mmMarquee |-> 105, outdoor4mmHighRes |-> 158, indoor25mmLobby |-> 200,
     indoor4mmStandard |-> 120]

ANC_BUDGET_RATES ==
    [installLaborPerSqFt |-> 290, electricalPerSqFt |-> 145, structuralWallPerSqFt |-> 30,
     structuralCeilingPerSqFt |-> 60, projectManagementFlat |-> 10500,
     engineeringStampedDrawingsFlat |-> 20000, marginTargetHundredths |-> 15,
     dutyMultiplierTenths |-> 11, sparesMultiplierHundredths |-> 103]

ANC_BUNDLE_RATES ==
    [sendingCardPerDisplay |-> 450, sparePartsRateHundredths |-> 2,
     signalCableKitPer25SqFt |-> 15, upsBatteryBackup |-> 2500,
     backupVideoProcessor |-> 12000, outdoorWeatherproofPerSqFt |-> 12]

\* normalizeText of the estimator
estimatorNormalizeText(input) == Trim(CollapseSpace(ToLower(input)))

\* \d+(?:\.\d+)?
NumberNodes == <<Chr(Digits, 1, Unbounded), Opt(<<<<Lit("."), Chr(Digits, 1, Unbounded)>>>>)>>

\* (?:ft|')?
FeetNodes == <<Opt(<<<<Lit("ft")>>, <<Lit("'")>>>>)>>

\* /\b(\d+)\s*(?:displays|screens|units|boards)\b/i
QuantityPattern ==
    <<B, Chr(Digits, 1, Unbounded), Ws0,
      Grp(<<<<Lit("displays")>>, <<Lit("screens")>>, <<Lit("units")>>, <<Lit("boards")>>>>), B>>

\* /(\d+(?:\.\d+)?)\s*(?:sq\.?\s*ft|sqft|sf)\b/gi
SqFtPattern ==
    NumberNodes \o
    <<Ws0, Grp(<<<<Lit("sq"), Opt(<<<<Lit(".")>>>>), Ws0, Lit("ft")>>, <<Lit("sqft")>>,
                 <<Lit("sf")>>>>), B>>

\* The characters of the class between the two numbers of a dimension, in
\* lower case (the class of the source holds x and two characters that are
\* not ASCII).
DimensionSeparators == {"x"}

\* /(\d+(?:\.\d+)?)\s*(?:ft|')?\s*[x..]\s*(\d+(?:\.\d+)?)\s*(?:ft|')?/gi
DimensionPattern ==
    NumberNodes \o <<Ws0>> \o FeetNodes \o <<Ws0, Chr(DimensionSeparators, 1, 1), Ws0>>
    \o NumberNodes \o <<Ws0>> \o FeetNodes

\* The longest gap between the keyword and the number of a rate.
RateGapMax == 20

\* new RegExp(`${keyword}[^\\d]{0,20}(\\d+(?:\\.\\d+)?)\\s*%`, "i")
RatePattern(keyword) ==
    <<Lit(keyword), NotChr(Digits, 0, RateGapMax)>> \o NumberNodes \o <<Ws0, Lit("%")>>

\* The end of the longest number that starts at position i of t: the
\* digits and, when a point and a digit follow, the fraction.  In each of
\* the patterns above what follows a number cannot start with a digit or a
\* point, so a match always takes the longest number.
DigitRun(t, i) == RunLength(Chr(Digits, 1, Unbounded), t, i)

NumberEnd(t, i) ==
    LET j == i + DigitRun(t, i)
    IN  IF j + 1 <= Len(t) /\ CharAt(t, j) = "." /\ CharAt(t, j + 1) \in Digits
        THEN j + 1 + DigitRun(t, j + 1)
        ELSE j

NumberAt(t, i) == SubSeq(t, i, NumberEnd(t, i) - 1)

\* The first digit at or after position i of t.
NextDigit(t, i) == i + RunLength(NotChr(Digits, 0, Unbounded), t, i)

\* The starts of the matches String.prototype.matchAll finds from
\* position from on, with the position after each match.
RECURSIVE MatchSpansFrom(_, _, _)
MatchSpansFrom(nodes, t, from) ==
    LET m == FirstMatch(nodes, t, from)
    IN  IF m[1] = 0 THEN <<>>
        ELSE <<m>> \o MatchSpansFrom(nodes, t, IF m[2] > m[1] THEN m[2] ELSE m[2] + 1)

\* The quantity fallback, the default area, and the bounds of an area.
DefaultQuantity == 1
DefaultSqFt == 150
MinSqFt == 1
MaxSqFt == 200000

\* The units a square foot and a rate of 1 are counted in.
AreaUnit == 10000
RateUnit == 10000

parseQuantity(text) ==
    LET quantityMatch == FirstMatch(QuantityPattern, ToLower(text), 1)
        parsed == IF quantityMatch[1] = 0 THEN 0
                  ELSE DigitsToNat(SubSeq(text, quantityMatch[1],
                                          quantityMatch[1] + DigitRun(text, quantityMatch[1]) - 1), 0)
    IN  IF parsed > 0 THEN parsed ELSE DefaultQuantity

\* The numbers named with a square-foot unit, and the products of the
\* dimension pairs, in units of 10^-4 square feet and in text order (a
\* number of the text has at most two decimals).
sqftMatches(text) ==
    LET spans == MatchSpansFrom(SqFtPattern, ToLower(text), 1)
    IN  [k \in 1..Len(spans) |-> 100 * NumberOrZero(NumberAt(text, spans[k][1]))]

dimensionMatches(text) ==
    LET spans == MatchSpansFrom(DimensionPattern, ToLower(text), 1)
    IN  [k \in 1..Len(spans) |->
            NumberOrZero(NumberAt(text, spans[k][1]))
            * NumberOrZero(NumberAt(text, NextDigit(text, NumberEnd(text, spans[k][1]))))]

IsAreaCandidate(value) == value > MinSqFt * AreaUnit /\ value < MaxSqFt * AreaUnit

\* The first candidate is taken instead of the largest.
parseSqFtFromText_First(text) ==
    LET sqftValues == SelectSeq(sqftMatches(text), IsAreaCandidate)
        dimensionAreas == SelectSeq(dimensionMatches(text), IsAreaCandidate)
        candidates == sqftValues \o dimensionAreas
    IN  IF Len(candidates) = 0 THEN DefaultSqFt * AreaUnit
        ELSE candidates[1]

\* parseSqFtFromText, in units of 10^-4 square feet.
parseSqFtFromText(text) ==
    LET sqftValues == SelectSeq(sqftMatches(text), IsAreaCandidate)
        dimensionAreas == SelectSeq(dimensionMatches(text), IsAreaCandidate)
        candidates == sqftValues \o dimensionAreas
    IN  IF Len(candidates) = 0 THEN DefaultSqFt * AreaUnit
        ELSE Max({candidates[k] : k \in 1..Len(candidates)})

\* parseRateFromKeyword, in units of 10^-4: the percentage has at most two
\* decimals, and it is never negative.
parseRateFromKeyword(text, keyword) ==
    LET match == FirstMatch(RatePattern(keyword), ToLower(text), 1)
    IN  IF match[1] = 0 THEN 0
        ELSE NumberOrZero(NumberAt(text, NextDigit(text, match[1] + Len(keyword))))

\* The classification classifyDisplay returns for each profile.
DisplayProfiles ==
    [outdoor_marquee |->
        [profile |-> "outdoor_marquee",
         label |-> "Outdoor Marquee",
         product |-> "Yaham R10 (10mm), 6500 Nits, Rear Service",
         vendorRatePerSqFt |-> ANC_VENDOR_RATES.outdoor10mmMarquee,
         structuralRatePerSqFt |-> ANC_BUDGET_RATES.structuralWallPerSqFt,
         isOutdoor |-> TRUE,
         isScoreboardOrCenterHung |-> FALSE],
     center_hung |->
        [profile |-> "center_hung",
         label |-> "Center Hung / Scoreboard",
         product |-> "Yaham R6 or LG 6mm (budgeted at Indoor 4mm dealer-net rate)",
         vendorRatePerSqFt |-> ANC_VENDOR_RATES.indoor4mmStandard,
         structuralRatePerSqFt |-> ANC_BUDGET_RATES.structuralCeilingPerSqFt,
         isOutdoor |-> FALSE,
         isScoreboardOrCenterHung |-> TRUE],
     lobby_atrium |->
        [profile |-> "lobby_atrium",
         label |-> "Lobby / Atrium",
         product |-> "Yaham C2.5 or LG 2.5mm",
         vendorRatePerSqFt |-> ANC_VENDOR_RATES.indoor25mmLobby,
         structuralRatePerSqFt |-> ANC_BUDGET_RATES.structuralWallPerSqFt,
         isOutdoor |-> FALSE,
         isScoreboardOrCenterHung |-> FALSE],
     indoor_standard |->
        [profile |-> "indoor_standard",
         label |-> "Indoor Standard",
         product |-> "Yaham C4 (assumed standard indoor profile)",
         vendorRatePerSqFt |-> ANC_VENDOR_RATES.indoor4mmStandard,
         structuralRatePerSqFt |-> ANC_BUDGET_RATES.structuralWallPerSqFt,
         isOutdoor |-> FALSE,
         isScoreboardOrCenterHung |-> FALSE]]

\* The order of the tests is changed: center hung before outdoor marquee.
selectProfile_CenterFirst(lower) ==
    LET isOutdoorMarquee == Includes(lower, "outdoor marquee")
        isCenterHung == Includes(lower, "center hung") \/ Includes(lower, "scoreboard")
        isLobby == Includes(lower, "lobby") \/ Includes(lower, "atrium")
    IN  IF isCenterHung THEN "center_hung"
        ELSE IF isOutdoorMarquee THEN "outdoor_marquee"
        ELSE IF isLobby THEN "lobby_atrium"
        ELSE "indoor_standard"

\* The chain of tests of classifyDisplay, on the normalized text.
selectProfile(lower) ==
    LET isOutdoorMarquee == Includes(lower, "outdoor marquee")
        isCenterHung == Includes(lower, "center hung") \/ Includes(lower, "scoreboard")
        isLobby == Includes(lower, "lobby") \/ Includes(lower, "atrium")
    IN  IF isOutdoorMarquee THEN "outdoor_marquee"
        ELSE IF isCenterHung THEN "center_hung"
        ELSE IF isLobby THEN "lobby_atrium"
        ELSE "indoor_standard"

classifyDisplay(rawText) == DisplayProfiles[selectProfile(estimatorNormalizeText(rawText))]

\* The divisors that turn 10^-9 dollars into cents, and 10^-4 square feet
\* into hundredths.
ToCents == <<1000, 1000, 10>>
ToHundredths == <<100>>

\* A cost is the fraction num / (den[1] * ... * den[n]) of 10^-9 dollars.
Whole(num) == [num |-> num, den |-> <<>>]
Times(value, m) == [num |-> BigMul(value.num, BigOf(m)), den |-> value.den]
Over(value, d) == [num |-> value.num, den |-> value.den \o <<d>>]

\* rate * area dollars, for an area in units of 10^-4 square feet.
PerSqFt(rate, area) == Whole(BigProduct(<<rate, area, 1000, 100>>))

\* A flat amount of dollars.
Dollars(n) == Whole(BigProduct(<<n, 1000, 1000, 1000>>))

\* The sum of costs that are whole numbers of 10^-9 dollars.
RECURSIVE SumCosts(_)
SumCosts(costs) ==
    IF Len(costs) = 0 THEN Whole(<<>>)
    ELSE Whole(BigAdd(Head(costs).num, SumCosts(Tail(costs)).num))

\* money(value), in cents: Math.round(value * 100) / 100.
money(value) == RoundedQuotient(value.num, value.den \o ToCents)

\* money(totalSqFt), in hundredths of a square foot.
moneySqFt(area) == RoundedQuotient(BigOf(area), ToHundredths)

\* Number.prototype.toFixed(4) of a rate in units of 10^-4.
RateToFixed(rate) ==
    LET frac == NatToString(rate % RateUnit)
    IN  NatToString(rate \div RateUnit) \o "." \o SubSeq("000", 1, 4 - Len(frac)) \o frac

\* The pricing divisor 1 - marginTarget, in hundredths.
MarginDivisor == 100 - ANC_BUDGET_RATES.marginTargetHundredths

\* The area above which the backup processor is charged.
ProcessorSqFt == 300

\* The processor is charged from the threshold on.
processorTriggered_AtThreshold(totalSqFt) == totalSqFt >= ProcessorSqFt * AreaUnit

\* totalSqFt > 300, for an area in units of 10^-4 square feet.
processorTriggered(totalSqFt) == totalSqFt > ProcessorSqFt * AreaUnit

LineItem(id, group, label, formula, amount) ==
    [id |-> id, group |-> group, label |-> label, formula |-> formula, amount |-> amount]

\* (input.x || fallback).trim() for an optional string
TextOr(value, fallback) ==
    Trim(IF value.t = "s" /\ value.s # "" THEN value.s ELSE fallback)

\* The element of a set of one element.  A value is bound to a name by
\* drawing it from such a set, so that it is computed once.
Only(S) == CHOOSE x \in S : TRUE

\* The body of runAncEstimator, from the values parsed from the text on.
estimateFrom(input, now, classification, quantity, sqftPerDisplay, taxRate, bondRate) ==
    LET totalSqFt == sqftPerDisplay * quantity
        vendorRate == classification.vendorRatePerSqFt
        \* vendorRate * dutyMultiplier * sparesMultiplier * totalSqFt
        hardware == Whole(BigProduct(<<vendorRate, ANC_BUDGET_RATES.dutyMultiplierTenths,
                                       ANC_BUDGET_RATES.sparesMultiplierHundredths,
                                       totalSqFt, 100>>))
        installLabor == PerSqFt(ANC_BUDGET_RATES.installLaborPerSqFt, totalSqFt)
        electrical == PerSqFt(ANC_BUDGET_RATES.electricalPerSqFt, totalSqFt)
        structural == PerSqFt(classification.structuralRatePerSqFt, totalSqFt)
        sendingCard == Times(Dollars(ANC_BUNDLE_RATES.sendingCardPerDisplay), quantity)
        \* the two divisions below leave no remainder
        spareParts == Whole(BigDiv(Times(hardware, ANC_BUNDLE_RATES.sparePartsRateHundredths).num,
                                   100))
        signalCableKit ==
            Whole(BigDiv(PerSqFt(ANC_BUNDLE_RATES.signalCableKitPer25SqFt, totalSqFt).num, 25))
        upsBackup == IF classification.isScoreboardOrCenterHung
                     THEN Dollars(ANC_BUNDLE_RATES.upsBatteryBackup) ELSE Dollars(0)
        backupProcessor == IF processorTriggered(totalSqFt)
                           THEN Dollars(ANC_BUNDLE_RATES.backupVideoProcessor) ELSE Dollars(0)
        weatherproof == IF classification.isOutdoor
                        THEN PerSqFt(ANC_BUNDLE_RATES.outdoorWeatherproofPerSqFt, totalSqFt)
                        ELSE Dollars(0)
        projectManagement == Dollars(ANC_BUDGET_RATES.projectManagementFlat)
        stampedDrawings == Dollars(ANC_BUDGET_RATES.engineeringStampedDrawingsFlat)
        totalCost == SumCosts(<<hardware, installLabor, electrical, structural, sendingCard,
                                spareParts, signalCableKit, upsBackup, backupProcessor,
                                weatherproof, projectManagement, stampedDrawings>>)
        sellingPrice == Over(Times(totalCost, 100), MarginDivisor)
        taxAmount == Over(Times(sellingPrice, taxRate), RateUnit)
        bondAmount == Over(Times(sellingPrice, bondRate), RateUnit)
        bidFormSubtotal == Over(Times(sellingPrice, RateUnit + taxRate + bondRate), RateUnit)
        grossMarginDollars == Over(Times(totalCost, 100 - MarginDivisor), MarginDivisor)
        shownSqFt == NumberToString(moneySqFt(totalSqFt))
        assumptions ==
            <<"Profile selected: " \o classification.label,
              "Product assumption: " \o classification.product,
              "Quantity: " \o NatToString(quantity),
              "Area assumption: " \o shownSqFt \o " sq ft total",
              "Hardware formula: (Vendor * 1.10 duty * 1.03 spares) * SqFt",
              "Margin target: " \o NatToString(ANC_BUDGET_RATES.marginTargetHundredths) \o "%">>
        lineItems ==
            <<LineItem("HW-LED", "hardware", "LED Hardware",
                       "(" \o NatToString(vendorRate) \o " * 1.10 * 1.03) * " \o shownSqFt,
                       money(hardware)),
              LineItem("LAB-INSTALL", "labor", "Install Labor",
                       NatToString(ANC_BUDGET_RATES.installLaborPerSqFt) \o " * " \o shownSqFt,
                       money(installLabor)),
              LineItem("ELEC", "labor", "Electrical",
                       NatToString(ANC_BUDGET_RATES.electricalPerSqFt) \o " * " \o shownSqFt,
                       money(electrical)),
              LineItem("STRUCT", "labor", "Structural",
                       NatToString(classification.structuralRatePerSqFt) \o " * " \o shownSqFt,
                       money(structural)),
              LineItem("BUNDLE-SEND", "bundles", "Sending Card",
                       NatToString(ANC_BUNDLE_RATES.sendingCardPerDisplay) \o " * "
                       \o NatToString(quantity),
                       money(sendingCard)),
              LineItem("BUNDLE-SPARES", "bundles", "Spare Parts Package (2%)",
                       NumberToString(money(hardware)) \o " * 0.02",
                       money(spareParts)),
              LineItem("BUNDLE-CABLE", "bundles", "Signal Cable Kit",
                       NatToString(ANC_BUNDLE_RATES.signalCableKitPer25SqFt) \o " * ("
                       \o shownSqFt \o " / 25)",
                       money(signalCableKit)),
              LineItem("BUNDLE-UPS", "bundles", "UPS Battery Backup",
                       IF classification.isScoreboardOrCenterHung
                       THEN "Scoreboard/Center Hung trigger" ELSE "Not triggered",
                       money(upsBackup)),
              LineItem("BUNDLE-PROC", "bundles", "Backup Video Processor",
                       IF processorTriggered(totalSqFt)
                       THEN "Display > 300 sq ft trigger" ELSE "Not triggered",
                       money(backupProcessor)),
              LineItem("BUNDLE-WEATHER", "bundles", "Weatherproof Enclosure Surcharge",
                       IF classification.isOutdoor
                       THEN NatToString(ANC_BUNDLE_RATES.outdoorWeatherproofPerSqFt) \o " * "
                            \o shownSqFt
                       ELSE "Not triggered",
                       money(weatherproof)),
              LineItem("FEE-PM", "flat_fees", "Project Management", "Flat Fee",
                       money(projectManagement)),
              LineItem("FEE-ENG", "flat_fees", "Engineering Stamped Drawings", "Flat Allowance",
                       money(stampedDrawings)),
              LineItem("PRICE-TOTAL", "pricing", "Total Cost", "Sum of all internal costs",
                       money(totalCost)),
              LineItem("PRICE-SELL", "pricing", "Selling Price",
                       NumberToString(money(totalCost)) \o " / (1 - 0.15)",
                       money(sellingPrice)),
              LineItem("PRICE-TAX", "pricing", "Tax",
                       NumberToString(money(sellingPrice)) \o " * " \o RateToFixed(taxRate),
                       money(taxAmount)),
              LineItem("PRICE-BOND", "pricing", "Bond",
                       NumberToString(money(sellingPrice)) \o " * " \o RateToFixed(bondRate),
                       money(bondAmount)),
              LineItem("PRICE-BID", "pricing", "Bid Form Subtotal", "Selling Price + Tax + Bond",
                       money(bidFormSubtotal))>>
    IN  [project |-> [projectTitle |-> TextOr(input.projectTitle, "ANC Estimate"),
                      clientName |-> TextOr(input.clientName, "Unknown Client"),
                      venueName |-> TextOr(input.venueName, "Unknown Venue"),
                      generatedAt |-> now],
         assumptions |-> assumptions,
         display |-> [profile |-> classification.profile,
                      label |-> classification.label,
                      product |-> classification.product,
                      quantity |-> quantity,
                      totalSqFt |-> moneySqFt(totalSqFt),
                      vendorRatePerSqFt |-> vendorRate,
                      structuralRatePerSqFt |-> classification.structuralRatePerSqFt],
         lineItems |-> lineItems,
         totals |-> [totalCost |-> money(totalCost),
                     sellingPrice |-> money(sellingPrice),
                     taxRate |-> taxRate,
                     taxAmount |-> money(taxAmount),
                     bondRate |-> bondRate,
                     bondAmount |-> money(bondAmount),
                     bidFormSubtotal |-> money(bidFormSubtotal),
                     grossMarginDollars |-> money(grossMarginDollars),
                     \* (grossMarginDollars / sellingPrice) * 100 is the margin target
                     grossMarginPercent |-> (100 - MarginDivisor) * 100]]

runAncEstimator(input, now) ==
    Only({estimateFrom(input, now, classification, quantity, sqftPerDisplay, taxRate, bondRate) :
              classification \in {classifyDisplay(input.rawText)},
              quantity \in {parseQuantity(input.rawText)},
              sqftPerDisplay \in {parseSqFtFromText(input.rawText)},
              taxRate \in {parseRateFromKeyword(input.rawText, "tax")},
              bondRate \in {parseRateFromKeyword(input.rawText, "bond")}})

(***************************************************************************)
(* The estimator harness: a text is assembled from fragments and handed    *)
(* to runAncEstimator with the titles of the page.                         *)
(***************************************************************************)
MaxEstFrags == 3

EstFragments ==
    {"2 displays", ", 10ft x 20ft", ", outdoor marquee", " 150 sq ft",
     " Scoreboard 7.31 x 3.4", " lobby tax 8.25%", " center hung bond: 1.5 %",
     " atrium 0 units", " Outdoor\n Marquee 1 sq ft"}

EstTitles ==
    {[projectTitle |-> Missing, clientName |-> Missing, venueName |-> Missing],
     [projectTitle |-> Str(" Arena RFP "), clientName |-> Str("City"), venueName |-> Str("")]}

EstTime == "2024-05-01T10:00:00.000Z"

EstText == Concat(estIn.fragments)

EstInit ==
    /\ estIn \in {[fragments |-> <<>>, titles |-> titles] : titles \in EstTitles}
    /\ estOut = None
    /\ estPc = "build"
    \* The other harnesses are not running.
    /\ chunkerIn = <<>>
    /\ chunkerRaw = ""
    /\ chunkerOut = <<>>
    /\ chunkerPc = "idle"
    /\ scoreIn = <<>>
    /\ scoreOut = None
    /\ scorePc = "idle"
    /\ wbIn = None
    /\ wbBuilt = None
    /\ wbSheets = None
    /\ wbParsed = None
    /\ wbPc = "idle"
    /\ diffIn = None
    /\ diffOut = None
    /\ diffPc = "idle"
    /\ page = None
    /\ pageTimers = <<>>
    /\ pageReads = <<>>
    /\ pageExtract = None
    /\ pageConsole = <<>>
    /\ latestAnalysis = <<>>
    /\ pageOps = 0

EstAddFragment ==
    /\ estPc = "build"
    /\ Len(estIn.fragments) < MaxEstFrags
    /\ \E fragment \in EstFragments :
          estIn' = [estIn EXCEPT !.fragments = Append(@, fragment)]
    /\ UNCHANGED <<estOut, estPc>>
    /\ UNCHANGED notEstVars

EstRun ==
    /\ estPc = "build"
    /\ estOut' = runAncEstimator([rawText |-> EstText,
                                  projectTitle |-> estIn.titles.projectTitle,
                                  clientName |-> estIn.titles.clientName,
                                  venueName |-> estIn.titles.venueName], EstTime)
    /\ estPc' = "done"
    /\ UNCHANGED estIn
    /\ UNCHANGED notEstVars

EstNext == EstAddFragment \/ EstRun

SpecEstimator == EstInit /\ [][EstNext]_vars

(***************************************************************************)
(* Properties of the estimator.                                            *)
(***************************************************************************)
\* The characters of an arithmetic expression over decimal numbers.
ArithmeticChars == Digits \cup {" ", ".", "*", "/", "+", "-", "(", ")"}

IsArithmetic(formula) ==
    /\ formula # ""
    /\ \A i \in 1..Len(formula) : CharAt(formula, i) \in ArithmeticChars

ItemById(result, id) ==
    LET k == CHOOSE k \in 1..Len(result.lineItems) : result.lineItems[k].id = id
    IN  result.lineItems[k]

\* C15: every line item of a result carries a formula that states the
\* arithmetic used.  Each formula is an arithmetic expression, and the
\* expression evaluates to the amount of the item: for the items charged by
\* the square foot, whose formula is "<rate> * <area>", the amount is the
\* rate times the area the formula shows (cents = dollars per sq ft times
\* hundredths of a sq ft).
C15_FormulasGiveAmounts ==
    estPc = "done" =>
        LET shown == estOut.display.totalSqFt
            PerSqFtItem(id, rate) ==
                /\ ItemById(estOut, id).formula
                       = NatToString(rate) \o " * " \o NumberToString(shown)
                /\ ItemById(estOut, id).amount = rate * shown
        IN  /\ \A k \in 1..Len(estOut.lineItems) : IsArithmetic(estOut.lineItems[k].formula)
            /\ PerSqFtItem("LAB-INSTALL", ANC_BUDGET_RATES.installLaborPerSqFt)
            /\ PerSqFtItem("ELEC", ANC_BUDGET_RATES.electricalPerSqFt)
            /\ PerSqFtItem("STRUCT", estOut.display.structuralRatePerSqFt)

CostItemIds ==
    <<"HW-LED", "LAB-INSTALL", "ELEC", "STRUCT", "BUNDLE-SEND", "BUNDLE-SPARES", "BUNDLE-CABLE",
      "BUNDLE-UPS", "BUNDLE-PROC", "BUNDLE-WEATHER", "FEE-PM", "FEE-ENG">>

CostItemAmounts(result) ==
    [k \in 1..Len(CostItemIds) |-> ItemById(result, CostItemIds[k]).amount]

\* C16: in every result totals.totalCost is the sum of the reported amounts
\* of the 12 cost line items.
C16_TotalIsSumOfItems ==
    estPc = "done" => estOut.totals.totalCost = SumSeq(CostItemAmounts(estOut))

\* An amount of cents times m / (ds[1] * ... * ds[n]), rounded to the cent.
CentsTimes(amount, m, ds) == RoundedQuotient(BigMul(BigOf(amount), BigOf(m)), ds)

\* C17: the pricing chain holds on the values reported in totals, each
\* quotient and product taken to the cent: sellingPrice = totalCost / 0.85,
\* taxAmount = sellingPrice * taxRate, bondAmount = sellingPrice * bondRate,
\* bidFormSubtotal = sellingPrice + taxAmount + bondAmount, and
\* grossMarginDollars = sellingPrice - totalCost.
C17_PricingChain ==
    estPc = "done" =>
        LET totals == estOut.totals
        IN  /\ totals.sellingPrice = CentsTimes(totals.totalCost, 100, <<MarginDivisor>>)
            /\ totals.taxAmount = CentsTimes(totals.sellingPrice, totals.taxRate, <<RateUnit>>)
            /\ totals.bondAmount = CentsTimes(totals.sellingPrice, totals.bondRate, <<RateUnit>>)
            /\ totals.bidFormSubtotal
                   = totals.sellingPrice + totals.taxAmount + totals.bondAmount
            /\ totals.grossMarginDollars = totals.sellingPrice - totals.totalCost

\* The number of the first quantity mention of a text, None without one.
FirstQuantity(text) ==
    LET m == FirstMatch(QuantityPattern, ToLower(text), 1)
    IN  IF m[1] = 0 THEN None
        ELSE [n |-> DigitsToNat(SubSeq(text, m[1], m[1] + DigitRun(text, m[1]) - 1), 0)]

\* The areas a text mentions, in units of 10^-4 square feet.
MentionedAreas(text) == SeqRange(sqftMatches(text)) \cup SeqRange(dimensionMatches(text))

\* Math.round(area / 100): an area in hundredths of a square foot.
RoundedSqFt(area) == (area + 50) \div 100

Documentation(result) ==
    <<result.assumptions, [k \in 1..Len(result.lineItems) |-> result.lineItems[k].formula]>>

\* The result for the text of the harness followed by an explicit statement.
EstResultWith(statement) ==
    runAncEstimator([rawText |-> EstText \o statement,
                     projectTitle |-> estIn.titles.projectTitle,
                     clientName |-> estIn.titles.clientName,
                     venueName |-> estIn.titles.venueName], EstTime)

AreaDefaulted(text) ==
    \A a \in MentionedAreas(text) : ~IsAreaCandidate(a)

QuantityDefaulted(text) == IsNone(FirstQuantity(text))

RateDefaulted(text, keyword) == FirstMatch(RatePattern(keyword), ToLower(text), 1)[1] = 0

\* C19: a result that fell back to a default (area 150 sq ft, quantity 1,
\* tax or bond rate 0) documents it in its assumptions or formulas, so that
\* they differ from those of the result for the same text followed by an
\* explicit statement of that value.
C19_DefaultsDocumented ==
    estPc = "done" =>
        LET documented == Documentation(estOut)
        IN  /\ AreaDefaulted(EstText) =>
                   documented # Documentation(EstResultWith(" 150 sq ft"))
            /\ QuantityDefaulted(EstText) =>
                   documented # Documentation(EstResultWith(" 1 units"))
            /\ RateDefaulted(EstText, "tax") =>
                   documented # Documentation(EstResultWith(" tax 0%"))
            /\ RateDefaulted(EstText, "bond") =>
                   documented # Documentation(EstResultWith(" bond 0%"))

\* The profile the claimed priority order gives for a text in which the
\* triggers are looked up.
ProfileByPriority(text) ==
    IF Includes(text, "outdoor marquee") THEN "outdoor_marquee"
    ELSE IF Includes(text, "center hung") \/ Includes(text, "scoreboard") THEN "center_hung"
    ELSE IF Includes(text, "lobby") \/ Includes(text, "atrium") THEN "lobby_atrium"
    ELSE "indoor_standard"

ProfileNames == {"outdoor_marquee", "center_hung", "lobby_atrium", "indoor_standard"}

\* C20 as claimed: the profile is picked in the fixed priority order over
\* the lowercased text.
C20_PriorityOverLowercased ==
    estPc = "done" => estOut.display.profile = ProfileByPriority(ToLower(EstText))

\* C20, amended: the profile is picked in the fixed priority order over the
\* text lowercased, with every run of white space turned into one space,
\* and trimmed; exactly one profile is returned for every text.
C20_PriorityOverNormalized ==
    estPc = "done" =>
        /\ estOut.display.profile \in ProfileNames
        /\ estOut.display.profile
               = ProfileByPriority(Trim(CollapseSpace(ToLower(EstText))))

\* A text with the triggers of three profiles, the highest one written
\* across a line break, gets the outdoor marquee profile.
C20_Witness ==
    /\ estPc = "done"
    /\ EstText = " lobby tax 8.25% center hung bond: 1.5 % Outdoor\n Marquee 1 sq ft"
    /\ estOut.display.profile = "outdoor_marquee"

BundleItemIds == {"BUNDLE-UPS", "BUNDLE-PROC", "BUNDLE-WEATHER"}

\* C21: the conditional bundle items are charged exactly under their
\* triggers: BUNDLE-UPS has a non-zero amount iff the profile is
\* center_hung, BUNDLE-PROC iff quantity times area is above 300 sq ft,
\* BUNDLE-WEATHER iff the profile is outdoor_marquee; each of the three
\* appears once in lineItems, triggered or not, with an amount that is
\* never negative.
C21_BundlesUnderTriggers ==
    estPc = "done" =>
        LET totalSqFt == parseSqFtFromText(EstText) * parseQuantity(EstText)
            profile == estOut.display.profile
        IN  /\ \A id \in BundleItemIds :
                   /\ Cardinality({k \in 1..Len(estOut.lineItems) :
                                       estOut.lineItems[k].id = id}) = 1
                   /\ ItemById(estOut, id).amount >= 0
            /\ ItemById(estOut, "BUNDLE-UPS").amount # 0 <=> profile = "center_hung"
            /\ ItemById(estOut, "BUNDLE-PROC").amount # 0
                   <=> totalSqFt > ProcessorSqFt * AreaUnit
            /\ ItemById(estOut, "BUNDLE-WEATHER").amount # 0 <=> profile = "outdoor_marquee"

\* Two displays of 150 sq ft, center hung: exactly 300 sq ft, so that the
\* UPS is charged and neither the processor nor the weatherproofing is.
C21_Witness ==
    /\ estPc = "done"
    /\ EstText = "2 displays 150 sq ft center hung bond: 1.5 %"
    /\ estOut.display.totalSqFt = 30000
    /\ ItemById(estOut, "BUNDLE-UPS").amount = 250000
    /\ ItemById(estOut, "BUNDLE-PROC").amount = 0
    /\ ItemById(estOut, "BUNDLE-WEATHER").amount = 0

(***************************************************************************)
(* The reason string of the classifier.                                    *)
(***************************************************************************)
\* Priority of a trigger as the reason names it: must-keep phrases, then
\* mandatory and deadline language, then every other trigger.
TriggerRank(r) ==
    IF IndexOf(r, "must-keep: ", 1) = 1 THEN 1
    ELSE IF r \in {"mandatory language", "submission/deadline language"} THEN 2
    ELSE 3

\* The triggers that fire on text, as the reason names them.
FiredTriggers(text) ==
    {QuoteReason("must-keep", MUST_KEEP_PHRASES[i]) : i \in
         {i \in 1..Len(MUST_KEEP_PHRASES) :
              countOccurrences(normalizeText(text), MustKeepNormalized[i]) > 0}}
    \cup {QuoteReason("noise", NOISE_KEYWORDS[i]) : i \in
         {i \in 1..Len(NOISE_KEYWORDS) :
              countOccurrences(normalizeText(text), NoiseNormalized[i]) > 0}}
    \cup (IF Test(MandatoryPattern, ToLower(text)) THEN {"mandatory language"} ELSE {})
    \cup (IF Test(DeadlinePattern, ToLower(text))
          THEN {"submission/deadline language"} ELSE {})

\* The triggers the reason string lists, in its order.
ShownTriggers(result) ==
    IF result.reason = "keyword-density analysis" THEN <<>>
    ELSE SplitStr(result.reason, ", ")

\* C22: the reason lists at most 3 of the triggers that fired, in priority
\* order (must-keep, then mandatory/deadline language, then the others),
\* and when more than 3 fired, no dropped trigger has a higher priority
\* than a listed one.
C22_ReasonInPriorityOrder ==
    scorePc = "done" =>
        LET shown == ShownTriggers(scoreOut)
            fired == FiredTriggers(ScoreText)
        IN  /\ Len(shown) = MinOf(MaxReasons, Cardinality(fired))
            /\ Range(shown) \subseteq fired
            /\ \A i, j \in 1..Len(shown) :
                   i < j => TriggerRank(shown[i]) <= TriggerRank(shown[j])
            /\ \A d \in fired \ Range(shown) : \A k \in 1..Len(shown) :
                   TriggerRank(shown[k]) <= TriggerRank(d)

\* The part of C22 the code keeps: at most 3 triggers, all of them fired,
\* the must-keep ones first.
C22_ReasonListsFiredTriggers ==
    scorePc = "done" =>
        LET shown == ShownTriggers(scoreOut)
            fired == FiredTriggers(ScoreText)
        IN  /\ Len(shown) = MinOf(MaxReasons, Cardinality(fired))
            /\ Range(shown) \subseteq fired
            /\ \A i, j \in 1..Len(shown) :
                   (i < j /\ TriggerRank(shown[j]) = 1) => TriggerRank(shown[i]) = 1

(***************************************************************************)
(* The blank-line path of the chunker.                                     *)
(***************************************************************************)
\* The trimmed fragments between the runs of two or more newlines of the
\* trimmed text.
BlankLineFragments(rawText) == MapTrim(SplitNewlines(Trim(rawText), 2))

NotShorterThanMin(part) == Len(part) >= MinFragmentLen

\* C23: without the sentinel in the trimmed text, splitIntoChunks returns,
\* in order, exactly the trimmed blank-line fragments of at least 80
\* characters: a fragment is discarded iff it is shorter than 80.
C23_KeepsFragmentsOfAtLeast80 ==
    (chunkerPc = "done" /\ ~Includes(Trim(chunkerRaw), Sentinel)) =>
        chunkerOut = SelectSeq(BlankLineFragments(chunkerRaw), NotShorterThanMin)

\* What the code keeps of C23: the fragments longer than 80 characters.
C23_KeepsFragmentsLongerThan80 ==
    (chunkerPc = "done" /\ ~Includes(Trim(chunkerRaw), Sentinel)) =>
        /\ chunkerOut = SelectSeq(BlankLineFragments(chunkerRaw), KeepLong)
        /\ \A i \in 1..Len(chunkerOut) : Len(chunkerOut[i]) > MinFragmentLen

(***************************************************************************)
(* The severity of a risk record.                                          *)
(***************************************************************************)
\* Liquidated-damages, termination, indemnification (in any word form) or
\* penalty language in a lowercased line.
HighRiskLanguage == <<B, Grp(<<<<Lit("liquidated damages"), B>>, <<Lit("termination"), B>>,
    <<Lit("indemnif"), Chr(LowerSet, 0, Unbounded), B>>, <<Lit("penalty"), B>>>>)>>

\* The lines of the built chunks that the risk record r was made of.
RiskLinesOf(r) ==
    {k \in 1..Len(WbEntries) :
        /\ IsRisk(WbEntries[k])
        /\ SliceTo(WbEntries[k].line, RiskMaxLen) = r.risk
        /\ WbEntries[k].chunk.id = r.citation}

\* C24: a risk record of the built workbook has severity High iff its line
\* holds liquidated-damages, termination, indemnification (any word form)
\* or penalty language, and Medium otherwise.
C24_SeverityHighIffLanguage ==
    wbPc \in {"built", "exported", "parsed"} /\ ~IsNone(wbBuilt) =>
        \A n \in 1..Len(wbBuilt.risks) :
            LET r == wbBuilt.risks[n]
            IN  /\ RiskLinesOf(r) # {}
                /\ r.severity \in {"High", "Medium"}
                /\ \A k \in RiskLinesOf(r) :
                       r.severity = "High" <=> Test(HighRiskLanguage, WbEntries[k].lower)

\* What the code keeps of C24: High iff the line holds one of the words
\* "liquidated damages", "termination", "indemnif" or "penalty" as a whole
\* word.
C24_SeverityHighIffWholeWord ==
    wbPc \in {"built", "exported", "parsed"} /\ ~IsNone(wbBuilt) =>
        \A n \in 1..Len(wbBuilt.risks) :
            LET r == wbBuilt.risks[n]
            IN  /\ RiskLinesOf(r) # {}
                /\ r.severity \in {"High", "Medium"}
                /\ \A k \in RiskLinesOf(r) :
                       r.severity = "High"
                           <=> \E w \in {"liquidated damages", "termination", "indemnif",
                                         "penalty"} :
                                   Test(<<B, Lit(w), B>>, WbEntries[k].lower)

(***************************************************************************)
(* The citation of a parsed row.                                           *)
(***************************************************************************)
\* The rows of sheet c that parseStructuredWorkbookFromSheets keeps: those
\* with their primary text.
KeptRows(sheets, c) ==
    LET rows == SheetOf(sheets, PrimaryColumns[c].sheet)
        kept == {i \in 1..Len(rows) : HoldsText(Cell(rows[i], PrimaryColumns[c].column))}
    IN  [n \in 1..Cardinality(kept) |->
            rows[CHOOSE i \in kept : Cardinality({k \in kept : k <= i}) = n]]

\* The places <<i, j>> of source where "(chunk-N)" stands, from the opening
\* to the closing parenthesis, in any case of the letters.
ChunkMentions(source) ==
    {p \in (1..Len(source)) \X (1..Len(source)) :
        /\ p[2] >= p[1] + 8
        /\ CharAt(source, p[1]) = "("
        /\ ToLower(SubSeq(source, p[1] + 1, p[1] + 6)) = "chunk-"
        /\ \A k \in (p[1] + 7)..(p[2] - 1) : CharAt(source, k) \in Digits
        /\ CharAt(source, p[2]) = ")"}

\* The text of a cell as the parser reads it.
CellText(row, column) == asString(Cell(row, column), "")

\* The citation C25 gives a row.
ExpectedCitation(row) ==
    LET source == CellText(row, "Source")
        mentions == ChunkMentions(source)
    IN  IF CellText(row, "Citation") # "" THEN CellText(row, "Citation")
        ELSE IF mentions # {}
             THEN LET first == CHOOSE p \in mentions : \A q \in mentions : p[1] <= q[1]
                  IN  SubSeq(source, first[1] + 1, first[2] - 1)
             ELSE ""

NameChars == LowerSet \cup WhiteSpace \cup {"&", ".", ",", "'", "-"}
PlainNameChars == LowerSet \cup WhiteSpace \cup {"&", "'", "-"}
TitleChars == NameChars \cup Digits
LabelSeparator == Chr({":"} \cup WhiteSpace, 1, Unbounded)

\* /(?:prepared\s+for|submitted\s+to|owner|client|attention|attn)[:\s]+([A-Z][A-Za-z\s&.,'-]{2,60})/i
CLIENT_PATTERNS == <<
    [prefix |-> <<Grp(<<<<Lit("prepared"), Ws1, Lit("for")>>,
                        <<Lit("submitted"), Ws1, Lit("to")>>, <<Lit("owner")>>,
                        <<Lit("client")>>, <<Lit("attention")>>, <<Lit("attn")>>>>),
                  LabelSeparator>>,
     group |-> <<Chr(LowerSet, 1, 1), Chr(NameChars, 2, 60)>>]>>

\* /(?:venue|facility|stadium|arena|fieldhouse|center|centre|convention\s+center|amphitheater|coliseum|ballpark)[:\s]+([A-Z][A-Za-z\s&.,'-]{2,80})/i
\* /(?:at|for)\s+(?:the\s+)?([A-Z][A-Za-z\s&'-]{2,60}(?:Stadium|Arena|Fieldhouse|Center|Centre|Convention\s+Center|Amphitheater|Coliseum|Ballpark|Field|Park|Dome))/i
VENUE_PATTERNS == <<
    [prefix |-> <<Grp(<<<<Lit("venue")>>, <<Lit("facility")>>, <<Lit("stadium")>>,
                        <<Lit("arena")>>, <<Lit("fieldhouse")>>, <<Lit("center")>>,
                        <<Lit("centre")>>, <<Lit("convention"), Ws1, Lit("center")>>,
                        <<Lit("amphitheater")>>, <<Lit("coliseum")>>, <<Lit("ballpark")>>>>),
                  LabelSeparator>>,
     group |-> <<Chr(LowerSet, 1, 1), Chr(NameChars, 2, 80)>>],
    [prefix |-> <<Grp(<<<<Lit("at")>>, <<Lit("for")>>>>), Ws1, Opt(<<<<Lit("the"), Ws1>>>>)>>,
     group |-> <<Chr(LowerSet, 1, 1), Chr(PlainNameChars, 2, 60),
                 Grp(<<<<Lit("stadium")>>, <<Lit("arena")>>, <<Lit("fieldhouse")>>,
                       <<Lit("center")>>, <<Lit("centre")>>,
                       <<Lit("convention"), Ws1, Lit("center")>>, <<Lit("amphitheater")>>,
                       <<Lit("coliseum")>>, <<Lit("ballpark")>>, <<Lit("field")>>,
                       <<Lit("park")>>, <<Lit("dome")>>>>)>>]>>

\* /(?:project\s*(?:name|title)?|re|subject|rfp\s+(?:for|title))[:\s]+([A-Z][A-Za-z0-9\s&.,'-]{4,120})/i
PROJECT_TITLE_PATTERNS == <<
    [prefix |-> <<Grp(<<<<Lit("project"), Ws0, Opt(<<<<Lit("name")>>, <<Lit("title")>>>>)>>,
                        <<Lit("re")>>, <<Lit("subject")>>,
                        <<Lit("rfp"), Ws1, Grp(<<<<Lit("for")>>, <<Lit("title")>>>>)>>>>),
                  LabelSeparator>>,
     group |-> <<Chr(LowerSet, 1, 1), Chr(TitleChars, 4, 120)>>]>>

\* A character that stands in no text and in no class of the patterns.
GroupMark == "@"

\* Whether the prefix can match exactly the characters from start up to,
\* not including, position at.
PrefixReaches(prefix, lower, start, at) ==
    MatchesFrom(prefix \o <<Lit(GroupMark)>>, 1,
                SubSeq(lower, 1, at - 1) \o GroupMark \o SubSeq(lower, at, Len(lower)), start)

\* text.match(pattern)?.[1]: <<start, end>> of the capture group of the
\* first match (end is the position after it), <<0, 0>> without a match.
\* The repetitions of a prefix are greedy, so of the places where the group
\* can start the matcher takes the last.
GroupSpan(pattern, lower) ==
    LET match == FirstMatch(pattern.prefix \o pattern.group, lower, 1)
        places == {g \in match[1]..match[2] :
                      /\ PrefixReaches(pattern.prefix, lower, match[1], g)
                      /\ MatchEnd(pattern.group, 1, lower, g) = match[2]}
    IN  IF match[1] = 0 THEN <<0, 0>> ELSE <<Max(places), match[2]>>

RECURSIVE firstGroupMatchFrom(_, _, _)
firstGroupMatchFrom(text, patterns, k) ==
    IF k > Len(patterns) THEN Missing
    ELSE LET span == GroupSpan(patterns[k], ToLower(text))
         IN  IF span[1] # 0 /\ span[2] > span[1]
             THEN Str(Trim(SubSeq(text, span[1], span[2] - 1)))
             ELSE firstGroupMatchFrom(text, patterns, k + 1)

\* firstGroupMatch(text, patterns): the trimmed group, or null.
firstGroupMatch(text, patterns) == firstGroupMatchFrom(text, patterns, 1)

extractRfpMeta(rawText) ==
    [clientName |-> firstGroupMatch(rawText, CLIENT_PATTERNS),
     venueName |-> firstGroupMatch(rawText, VENUE_PATTERNS),
     projectTitle |-> firstGroupMatch(rawText, PROJECT_TITLE_PATTERNS)]

(***************************************************************************)
(* structuredWorkbookToMarkdown (lib/rfpWorkbook.ts): the report the       *)
(* editor shows for a workbook.                                            *)
(***************************************************************************)
MarkdownMaxItems == 80

\* item.replace(/\|/g, "\\|")
RECURSIVE EscapeBars(_)
EscapeBars(s) ==
    IF Len(s) = 0 THEN ""
    ELSE (IF CharAt(s, 1) = "|" THEN "\\|" ELSE CharAt(s, 1)) \o EscapeBars(SubSeq(s, 2, Len(s)))

\* item.citation || item.source
CitationOrSource(item) == FirstNonEmpty(item.citation, item.source)

RequirementBullet(item) ==
    "- [" \o item.priority \o "] " \o item.text \o " (" \o item.category \o ") ["
    \o CitationOrSource(item) \o "]"
PricingLine(item) == "| " \o EscapeBars(item.item) \o " | " \o item.amount \o " |"
ScheduleBullet(item) ==
    "- " \o item.milestone \o " (Due: " \o item.dueText \o ") [" \o CitationOrSource(item) \o "]"
RiskBullet(item) ==
    "- [" \o item.severity \o "] " \o item.risk \o " [" \o CitationOrSource(item) \o "]"
AssumptionBullet(item) == "- " \o item.text \o " [" \o CitationOrSource(item) \o "]"

\* One section: the heading and one line per item, for at most 80 items;
\* no section for an empty collection.
MarkdownSection(heading, lines) ==
    IF Len(lines) = 0 THEN <<>>
    ELSE <<heading \o Join(SliceSeq(lines, MarkdownMaxItems), "\n")>>

structuredWorkbookToMarkdown(model) ==
    Join(<<"# " \o model.project.projectTitle \o "\n\n"
           \o "- Client: " \o model.project.clientName \o "\n"
           \o "- Venue: " \o model.project.venueName \o "\n"
           \o "- Generated: " \o model.project.generatedAt>>
         \o MarkdownSection("## Requirements\n\n",
                            [i \in 1..Len(model.requirements) |->
                                RequirementBullet(model.requirements[i])])
         \o MarkdownSection("## Pricing\n\n| Item | Amount |\n|---|---|\n",
                            [i \in 1..Len(model.pricing) |-> PricingLine(model.pricing[i])])
         \o MarkdownSection("## Schedule\n\n",
                            [i \in 1..Len(model.schedule) |->
                                ScheduleBullet(model.schedule[i])])
         \o MarkdownSection("## Risks\n\n",
                            [i \in 1..Len(model.risks) |-> RiskBullet(model.risks[i])])
         \o MarkdownSection("## Assumptions\n\n",
                            [i \in 1..Len(model.assumptions) |->
                                AssumptionBullet(model.assumptions[i])]),
         "\n\n")

\* The previews buildWorkbookArtifacts returns with the sheets: the name of
\* each sheet and the index of its last row, the header row being row 0.
\* The HTML of a preview is rendered from the same rows.
SheetOrder == <<"Project", "Requirements", "Pricing", "Schedule", "Risks", "Assumptions",
                "Sources">>

previewsOf(model) ==
    LET sheets == buildWorkbookArtifacts(model)
    IN  [k \in 1..Len(SheetOrder) |->
            [name |-> SheetOrder[k], rowCount |-> Len(sheets[SheetOrder[k]])]]

(***************************************************************************)
(* runRelevanceAnalysis (app/page.tsx): the chunks of a text, what the     *)
(* loop has counted after a number of chunks, and the summaries it         *)
(* publishes.                                                              *)
(***************************************************************************)
YieldEvery == 8

buildEmptyRelevanceSummary ==
    [total |-> 0, processed |-> 0, progress |-> 0, relevant |-> 0, maybe |-> 0,
     irrelevant |-> 0, riskFlagged |-> 0, drawingCandidates |-> 0, chunks |-> <<>>,
     relevantContent |-> "",
     meta |-> [clientName |-> Missing, venueName |-> Missing, projectTitle |-> Missing]]

\* The chunk the loop pushes for part i (from 0) of the text.
relevanceChunk(chunkText, i) ==
    Only({[id |-> "chunk-" \o NatToString(i), title |-> toChunkTitle(chunkText, i),
           text |-> chunkText, label |-> scored.label, score |-> scored.score,
           reason |-> scored.reason, categoryHits |-> scored.categoryHits,
           riskHits |-> scored.riskHits, matchedKeywords |-> scored.matchedKeywords,
           boosterHits |-> scored.boosterHits, drawingCandidate |-> scored.drawingCandidate] :
              scored \in {scoreRfpChunk(chunkText)}})

\* All chunks of a text.
relevanceChunks(rawText) ==
    Only({[i \in 1..Len(parts) |-> relevanceChunk(parts[i], i - 1)] :
              parts \in {splitIntoChunks(rawText)}})

CountWhere(chunks, Holds(_)) == Cardinality({i \in 1..Len(chunks) : Holds(chunks[i])})
IsRelevantChunk(chunk) == chunk.label = "relevant"
IsMaybeChunk(chunk) == chunk.label = "maybe"
IsIrrelevantChunk(chunk) == chunk.label = "irrelevant"
IsRiskFlagged(chunk) == Len(chunk.riskHits) > 0
IsDrawing(chunk) == chunk.drawingCandidate
IsKeptChunk(chunk) == chunk.label # "irrelevant"

\* Math.round((processed / total) * 100); no quotient of the texts analysed
\* lies near a half.
progressOf(processed, total) == (200 * processed + total) \div (2 * total)

\* The loop's counters and its chunks after the first n parts.
loopState(chunks, n) ==
    Only({[processed |-> n, relevant |-> CountWhere(done, IsRelevantChunk),
           maybe |-> CountWhere(done, IsMaybeChunk),
           irrelevant |-> CountWhere(done, IsIrrelevantChunk),
           riskFlagged |-> CountWhere(done, IsRiskFlagged),
           drawingCandidates |-> CountWhere(done, IsDrawing), chunks |-> done] :
              done \in {SubSeq(chunks, 1, n)}})

\* Mutant: the loop publishes after its last part only.
nextPublish_AtEndOnly(done, total) == total

\* The number of parts done when the loop, resumed after done parts,
\* publishes next: the next multiple of 8, or the last part.
nextPublish(done, total) ==
    MinOf(total, YieldEvery * ((done \div YieldEvery) + 1))

\* setRelevanceSummary((prev) => ({...prev, processed, progress, ...}))
publishProgress(prev, loop, total) ==
    [prev EXCEPT !.processed = loop.processed,
                 !.progress = progressOf(loop.processed, total),
                 !.relevant = loop.relevant, !.maybe = loop.maybe,
                 !.irrelevant = loop.irrelevant, !.riskFlagged = loop.riskFlagged,
                 !.drawingCandidates = loop.drawingCandidates, !.chunks = loop.chunks]

\* `## ${chunk.title}\n\n${chunk.text}` of the chunks that are not
\* irrelevant, joined with the sentinel.
relevantContentOf(chunks) ==
    LET kept == SelectSeq(chunks, IsKeptChunk)
    IN  Join([i \in 1..Len(kept) |-> "## " \o kept[i].title \o "\n\n" \o kept[i].text],
             Sentinel)

\* The summary the run sets before the loop, and the one it sets after it.
startSummary(total, meta) == [buildEmptyRelevanceSummary EXCEPT !.total = total, !.meta = meta]

finalSummary(chunks, meta) ==
    Only({[total |-> Len(chunks), processed |-> Len(chunks), progress |-> 100,
           relevant |-> loop.relevant, maybe |-> loop.maybe, irrelevant |-> loop.irrelevant,
           riskFlagged |-> loop.riskFlagged, drawingCandidates |-> loop.drawingCandidates,
           chunks |-> chunks, relevantContent |-> relevantContentOf(chunks), meta |-> meta] :
              loop \in {loopState(chunks, Len(chunks))}})

(***************************************************************************)
(* The page (Home in app/page.tsx).  Every handler runs to its first await *)
(* in one step; what follows an await is a step of its own: the upload     *)
(* after extractContent, the import after arrayBuffer, the analysis after  *)
(* each setTimeout(resolve, 0).  Timers of equal delay fire in the order   *)
(* they were set; reads and extractions end at any time.  A handler sees   *)
(* the state of the render in which it was called, also after its await.   *)
(* The state of useFileProcessor, the estimate and isGeneratingWorkbook,   *)
(* which is set and cleared within one step, are left out.                 *)
(***************************************************************************)
MaxPageOps == 4

\* Texts that extraction or the history can hand to the analysis: nine
\* parts, two parts, and none.
NineParts ==
    Join(<<"Owner: City of Reno; venue: Reno Arena", "tte Contractor shall pay $5",
           "waiver harassment", "tte Submittal due Jan 5, 2025", "n/a", "pixel pitch tte",
           "Retainage and penalty by others", "Insurer to indemnify owner",
           "net 30 retainage holdback plan $5 9 mm year 2 12 sq">>, Sentinel)
TwoParts == Join(<<"Client: ANC Sports; tte shall pay $7", "waiver harassment">>, Sentinel)
NoParts == " \n"
PageTexts == {NineParts, TwoParts, NoParts}

\* What extractContent can return: a text, or nothing when it fails.
UploadTexts == {TwoParts, NoParts, ""}

\* The items of the history: a text each, or content JSON.parse rejects.
HistoryItems ==
    {[text |-> NineParts, parses |-> TRUE], [text |-> TwoParts, parses |-> TRUE],
     [text |-> "", parses |-> FALSE]}

\* What runRelevanceAnalysis computes from each text before its loop and
\* in it: the meta and the chunks.
AnalysisOf ==
    [text \in PageTexts |-> [meta |-> extractRfpMeta(text), chunks |-> relevanceChunks(text)]]

\* The sheets of the files that can be imported: a legacy file of one
\* requirement, a file of one pricing line, and a file without a record.
PageFiles ==
    {[Requirements |-> <<LegacyRequirement>>],
     [Pricing |-> <<[ID |-> Str("PRC-1"), Item |-> Str("Freight"), Amount |-> Str("$40"),
                     Source |-> Str("Fees"), Citation |-> Str("chunk-9")]>>],
     [Project |-> <<[Field |-> Str("Project Title"), Value |-> Str("Notes")]>>]}

PageInit ==
    /\ page = [extractionMode |-> "rfp_workflow",
               relevanceSummary |-> buildEmptyRelevanceSummary,
               isAnalyzingRelevance |-> FALSE,
               structuredWorkbook |-> Null,
               workbookDiff |-> Null,
               workbookSheets |-> <<>>,
               activeWorkbookSheet |-> "",
               workbookEditorContent |-> "",
               editorSourceMode |-> "full",
               editorEnabled |-> FALSE]
    /\ pageTimers = <<>>
    /\ pageReads = <<>>
    /\ pageExtract = None
    /\ pageConsole = <<>>
    /\ latestAnalysis = <<>>
    /\ pageOps = 0
    \* The other harnesses are not running.
    /\ chunkerIn = <<>>
    /\ chunkerRaw = ""
    /\ chunkerOut = <<>>
    /\ chunkerPc = "idle"
    /\ scoreIn = <<>>
    /\ scoreOut = None
    /\ scorePc = "idle"
    /\ wbIn = None
    /\ wbBuilt = None
    /\ wbSheets = None
    /\ wbParsed = None
    /\ wbPc = "idle"
    /\ diffIn = None
    /\ diffOut = None
    /\ diffPc = "idle"
    /\ estIn = None
    /\ estOut = None
    /\ estPc = "idle"

\* Mutant: the diff outlives the workbook.
withoutWorkbook_KeepsDiff(p) ==
    [p EXCEPT !.structuredWorkbook = Null, !.workbookSheets = <<>>, !.activeWorkbookSheet = ""]

\* The page after the workbook, the diff and the previews are cleared.
withoutWorkbook(p) ==
    [p EXCEPT !.structuredWorkbook = Null, !.workbookDiff = Null, !.workbookSheets = <<>>,
              !.activeWorkbookSheet = ""]

\* runRelevanceAnalysis up to its first await, or to its return for a text
\* without parts; analysis holds the meta and the chunks of the text.
analysisStarted(p, analysis) ==
    LET total == Len(analysis.chunks)
        cleared == withoutWorkbook(p)
    IN  IF total = 0
        THEN [cleared EXCEPT !.relevanceSummary = startSummary(0, analysis.meta)]
        ELSE [cleared EXCEPT
                 !.isAnalyzingRelevance = TRUE,
                 !.relevanceSummary =
                     publishProgress(startSummary(total, analysis.meta),
                                     loopState(analysis.chunks, nextPublish(0, total)),
                                     total)]

\* The timers after runRelevanceAnalysis(rawText) ran to its first await.
timersStarted(timers, rawText, analysis) ==
    IF Len(analysis.chunks) = 0 THEN timers
    ELSE Append(timers, [rawText |-> rawText,
                         processed |-> nextPublish(0, Len(analysis.chunks))])

\* runRelevanceAnalysis(rawText) is called on the page p.
RunRelevanceAnalysis(p, rawText) ==
    \E analysis \in {AnalysisOf[rawText]} :
        /\ page' = analysisStarted(p, analysis)
        /\ pageTimers' = timersStarted(pageTimers, rawText, analysis)
        /\ latestAnalysis' = <<rawText>>

\* The extraction mode is chosen in the select.
SetExtractionMode ==
    /\ pageOps < MaxPageOps
    /\ \E mode \in {"rfp_workflow", "ocr_all"} \ {page.extractionMode} :
          page' = [page EXCEPT !.extractionMode = mode]
    /\ pageOps' = pageOps + 1
    /\ UNCHANGED <<pageTimers, pageReads, pageExtract, pageConsole, latestAnalysis>>
    /\ UNCHANGED notPageVars

\* handleUpload up to the await of extractContent, which will give a text
\* or, on failure, nothing.  The button is hidden while a file is extracted.
HandleUpload ==
    /\ pageOps < MaxPageOps
    /\ pageExtract = None
    /\ \E text \in UploadTexts :
          pageExtract' = [text |-> text, extractionMode |-> page.extractionMode]
    /\ pageOps' = pageOps + 1
    /\ UNCHANGED <<page, pageTimers, pageReads, pageConsole, latestAnalysis>>
    /\ UNCHANGED notPageVars

\* handleUpload after extractContent, with the mode of the render in which
\* the button was clicked.
HandleUploadExtracted ==
    /\ pageExtract # None
    /\ pageExtract' = None
    /\ IF pageExtract.text = ""
       THEN UNCHANGED <<page, pageTimers, latestAnalysis>>
       ELSE LET editing == [page EXCEPT !.editorSourceMode = "full", !.editorEnabled = TRUE]
            IN  IF pageExtract.extractionMode = "rfp_workflow"
                THEN RunRelevanceAnalysis(editing, pageExtract.text)
                ELSE /\ page' = [withoutWorkbook(editing) EXCEPT
                                    !.relevanceSummary = buildEmptyRelevanceSummary]
                     /\ latestAnalysis' = <<>>
                     /\ UNCHANGED pageTimers
    /\ UNCHANGED <<pageReads, pageConsole, pageOps>>
    /\ UNCHANGED notPageVars

\* handleSelectHistoryItem(item): the item holds a text, or content that
\* JSON.parse rejects.
HandleSelectHistoryItem ==
    /\ pageOps < MaxPageOps
    /\ \E item \in HistoryItems :
          LET editing == [page EXCEPT !.editorSourceMode = "full", !.editorEnabled = TRUE]
          IN  IF page.extractionMode = "rfp_workflow" /\ item.parses
              THEN RunRelevanceAnalysis(editing, item.text)
              ELSE /\ page' = [editing EXCEPT !.relevanceSummary = buildEmptyRelevanceSummary]
                   /\ latestAnalysis' = <<>>
                   /\ UNCHANGED pageTimers
    /\ pageOps' = pageOps + 1
    /\ UNCHANGED <<pageReads, pageExtract, pageConsole>>
    /\ UNCHANGED notPageVars

HandleReset ==
    /\ pageOps < MaxPageOps
    /\ page' = [withoutWorkbook(page) EXCEPT
                   !.editorEnabled = FALSE, !.editorSourceMode = "blank",
                   !.workbookEditorContent = "",
                   !.relevanceSummary = buildEmptyRelevanceSummary]
    /\ latestAnalysis' = <<>>
    /\ pageOps' = pageOps + 1
    /\ UNCHANGED <<pageTimers, pageReads, pageExtract, pageConsole>>
    /\ UNCHANGED notPageVars

\* The page after setStructuredWorkbook(model), setWorkbookDiff(null) and
\* the previews of the model.
withBuiltWorkbook(p, model) ==
    Only({[p EXCEPT !.structuredWorkbook = model, !.workbookDiff = Null,
                    !.workbookSheets = previews,
                    !.activeWorkbookSheet = previews[1].name] :
              previews \in {previewsOf(model)}})

\* buildStructuredWorkbook(relevanceSummary.chunks, relevanceSummary.meta)
builtFrom(summary) == buildStructuredWorkbook(summary.chunks, summary.meta, BuildTime)

\* generateStructuredWorkbook; its button is disabled during an analysis
\* and without chunks.
GenerateStructuredWorkbook ==
    /\ pageOps < MaxPageOps
    /\ ~page.isAnalyzingRelevance
    /\ Len(page.relevanceSummary.chunks) # 0
    /\ \E model \in {builtFrom(page.relevanceSummary)} :
          page' = [withBuiltWorkbook(page, model) EXCEPT
                      !.workbookEditorContent = structuredWorkbookToMarkdown(model)]
    /\ pageOps' = pageOps + 1
    /\ UNCHANGED <<pageTimers, pageReads, pageExtract, pageConsole, latestAnalysis>>
    /\ UNCHANGED notPageVars

\* exportWorkbookXlsx; its button is disabled without chunks.  The file it
\* writes leaves the page.
ExportWorkbookXlsx ==
    /\ pageOps < MaxPageOps
    /\ Len(page.relevanceSummary.chunks) # 0
    /\ IF IsNull(page.structuredWorkbook)
       THEN \E model \in {builtFrom(page.relevanceSummary)} :
                page' = withBuiltWorkbook(page, model)
       ELSE UNCHANGED page
    /\ pageOps' = pageOps + 1
    /\ UNCHANGED <<pageTimers, pageReads, pageExtract, pageConsole, latestAnalysis>>
    /\ UNCHANGED notPageVars

\* importWorkbookXlsx(uploadedFile) up to the await of arrayBuffer: the
\* call holds the structuredWorkbook of the render it was made in.
ImportWorkbookXlsx ==
    /\ pageOps < MaxPageOps
    /\ \E sheets \in PageFiles :
          pageReads' = Append(pageReads, [sheets |-> sheets,
                                          structuredWorkbook |-> page.structuredWorkbook])
    /\ pageOps' = pageOps + 1
    /\ UNCHANGED <<page, pageTimers, pageExtract, pageConsole, latestAnalysis>>
    /\ UNCHANGED notPageVars

\* The reads without read k.
WithoutRead(k) == [i \in 1..(Len(pageReads) - 1) |-> pageReads[IF i < k THEN i ELSE i + 1]]

\* The workbook parsed from the sheets of read k.
ParsedRead(k) == parseStructuredWorkbookFromSheets(pageReads[k].sheets, ImportTime)

\* The page after importWorkbookXlsx applied the parsed workbook, previous
\* being the workbook the call holds.
importApplied(p, previous, parsed) ==
    Only({[p EXCEPT !.structuredWorkbook = parsed,
                    !.workbookDiff = diffStructuredWorkbooks(previous, parsed),
                    !.workbookSheets = previews,
                    !.activeWorkbookSheet = previews[1].name,
                    !.workbookEditorContent = structuredWorkbookToMarkdown(parsed),
                    !.editorSourceMode = "workbook",
                    !.editorEnabled = TRUE] :
              previews \in {previewsOf(parsed)}})

\* The workbook that read k diffs against.
importPrevious(k) == pageReads[k].structuredWorkbook

\* importWorkbookXlsx after arrayBuffer, for a file that parses.
ImportApply(k, parsed) ==
    /\ ~IsNull(parsed)
    /\ page' = importApplied(page, importPrevious(k), parsed)
    /\ pageReads' = WithoutRead(k)
    /\ UNCHANGED <<pageTimers, pageExtract, pageConsole, latestAnalysis, pageOps>>
    /\ UNCHANGED notPageVars

\* Mutant: a file that does not parse empties the page's workbook.
ImportReject_ClearsWorkbook(k, parsed) ==
    /\ IsNull(parsed)
    /\ page' = [withoutWorkbook(page) EXCEPT !.workbookEditorContent = ""]
    /\ pageConsole' = Append(pageConsole, "Workbook import failed")
    /\ pageReads' = WithoutRead(k)
    /\ UNCHANGED <<pageTimers, pageExtract, latestAnalysis, pageOps>>
    /\ UNCHANGED notPageVars

\* importWorkbookXlsx after arrayBuffer, for a file that does not parse:
\* it throws, and the caller's catch logs the error.
ImportReject(k, parsed) ==
    /\ IsNull(parsed)
    /\ pageConsole' = Append(pageConsole, "Workbook import failed")
    /\ pageReads' = WithoutRead(k)
    /\ UNCHANGED <<page, pageTimers, pageExtract, latestAnalysis, pageOps>>
    /\ UNCHANGED notPageVars

\* A read ends.
ImportRead ==
    \E k \in 1..Len(pageReads) : \E parsed \in {ParsedRead(k)} :
        ImportApply(k, parsed) \/ ImportReject(k, parsed)

\* The oldest timer fires and its run goes on: to the next publication and
\* await, or, the loop being over, to its last summary.
AnalysisResume ==
    /\ Len(pageTimers) > 0
    /\ \E run \in {Head(pageTimers)} : \E analysis \in {AnalysisOf[run.rawText]} :
          \E total \in {Len(analysis.chunks)} :
              IF run.processed < total
              THEN \E processed \in {nextPublish(run.processed, total)} :
                      /\ page' = [page EXCEPT !.relevanceSummary =
                                     publishProgress(@, loopState(analysis.chunks, processed),
                                                     total)]
                      /\ pageTimers' = Append(Tail(pageTimers),
                                              [run EXCEPT !.processed = processed])
              ELSE /\ page' = [page EXCEPT
                                  !.relevanceSummary =
                                      finalSummary(analysis.chunks, analysis.meta),
                                  !.isAnalyzingRelevance = FALSE]
                   /\ pageTimers' = Tail(pageTimers)
    /\ UNCHANGED <<pageReads, pageExtract, pageConsole, latestAnalysis, pageOps>>
    /\ UNCHANGED notPageVars

PageNext ==
    \/ SetExtractionMode
    \/ HandleUpload
    \/ HandleUploadExtracted
    \/ HandleSelectHistoryItem
    \/ HandleReset
    \/ GenerateStructuredWorkbook
    \/ ExportWorkbookXlsx
    \/ ImportWorkbookXlsx
    \/ ImportRead
    \/ AnalysisResume

SpecPage == PageInit /\ [][PageNext]_vars

(***************************************************************************)
(* Properties of the page.                                                 *)
(***************************************************************************)
\* A step in which read k ended.
ReadEnded(k) == k \in 1..Len(pageReads) /\ pageReads' = WithoutRead(k)

\* C26: a successful import, whatever was started before or during its
\* read, leaves exactly the parsed workbook in memory, and as diff the diff
\* between the workbook that was in memory just before the replacement and
\* the parsed one: null exactly when there was none.
C26_ImportDiffsAgainstMemory ==
    [][\A k \in 1..Len(pageReads) : \A parsed \in {ParsedRead(k)} :
           (ReadEnded(k) /\ ~IsNull(parsed)) =>
               /\ page'.structuredWorkbook = parsed
               /\ page'.workbookDiff = diffStructuredWorkbooks(page.structuredWorkbook, parsed)
               /\ IsNull(page'.workbookDiff) <=> IsNull(page.structuredWorkbook)]_vars

\* What the code keeps of C26: the parsed workbook replaces the one in
\* memory, and the diff is taken against the workbook of the render in
\* which the import was started.
C26_ImportDiffsAgainstHeld ==
    [][\A k \in 1..Len(pageReads) : \A parsed \in {ParsedRead(k)} :
           (ReadEnded(k) /\ ~IsNull(parsed)) =>
               /\ page'.structuredWorkbook = parsed
               /\ page'.workbookDiff =
                      diffStructuredWorkbooks(pageReads[k].structuredWorkbook, parsed)]_vars

\* The summary a run of the text leaves when nothing interferes.
CompleteSummary(text) ==
    IF Len(AnalysisOf[text].chunks) = 0 THEN startSummary(0, AnalysisOf[text].meta)
    ELSE finalSummary(AnalysisOf[text].chunks, AnalysisOf[text].meta)

\* The summary holds total, meta, counts and chunks of one run of the text.
SummaryOfOneRun(summary, text) ==
    LET chunks == AnalysisOf[text].chunks
    IN  /\ summary.total = Len(chunks)
        /\ summary.meta = AnalysisOf[text].meta
        /\ summary.processed <= Len(chunks)
        /\ summary.chunks = SubSeq(chunks, 1, summary.processed)
        /\ summary.relevant = CountWhere(summary.chunks, IsRelevantChunk)
        /\ summary.maybe = CountWhere(summary.chunks, IsMaybeChunk)
        /\ summary.irrelevant = CountWhere(summary.chunks, IsIrrelevantChunk)

\* C27: when analyses overlap, then once all have finished the summary is
\* entirely that of the most recently started one, and no published
\* summary mixes the total or meta of one run with the counts or chunks of
\* another.
C27_LatestAnalysisWins ==
    latestAnalysis # <<>> =>
        /\ (pageTimers = <<>>) => page.relevanceSummary = CompleteSummary(latestAnalysis[1])
        /\ \E text \in PageTexts : SummaryOfOneRun(page.relevanceSummary, text)

\* C28: an import whose file does not parse is not applied: the workbook,
\* the diff, the sheet previews and the editor content stay as they were.
C28_RejectedImportChangesNothing ==
    [][\A k \in 1..Len(pageReads) :
           (ReadEnded(k) /\ IsNull(ParsedRead(k))) =>
               /\ page'.structuredWorkbook = page.structuredWorkbook
               /\ page'.workbookDiff = page.workbookDiff
               /\ page'.workbookSheets = page.workbookSheets
               /\ page'.workbookEditorContent = page.workbookEditorContent]_vars

\* An import was rejected, all operations are over, and the page holds a
\* workbook with its diff, previews and editor content.
C28_Witness ==
    /\ pageConsole = <<"Workbook import failed">>
    /\ pageReads = <<>>
    /\ pageTimers = <<>>
    /\ ~IsNull(page.structuredWorkbook)
    /\ ~IsNull(page.workbookDiff)
    /\ Len(page.workbookSheets) = Len(SheetOrder)
    /\ page.workbookEditorContent = structuredWorkbookToMarkdown(page.structuredWorkbook)

\* C29: in every state a diff implies a workbook; and every step that
\* clears or rebuilds the workbook without ending an import leaves no diff.
C29_DiffImpliesWorkbook ==
    /\ [](~IsNull(page.workbookDiff) => ~IsNull(page.structuredWorkbook))
    /\ [][(page'.structuredWorkbook # page.structuredWorkbook /\ pageReads' = pageReads)
              => IsNull(page'.workbookDiff)]_vars

\* An import has replaced a generated workbook: the page holds a diff and
\* a workbook.
C29_Witness ==
    /\ ~IsNull(page.workbookDiff)
    /\ ~IsNull(page.structuredWorkbook)
    /\ page.editorSourceMode = "workbook"
    /\ page.workbookDiff.requirements.removed # <<>>

\* What C30 asks of every summary a run publishes.
CountsAddUp(summary) ==
    /\ summary.relevant = Cardinality({i \in 1..Len(summary.chunks) :
                                          summary.chunks[i].label = "relevant"})
    /\ summary.maybe = Cardinality({i \in 1..Len(summary.chunks) :
                                       summary.chunks[i].label = "maybe"})
    /\ summary.irrelevant = Cardinality({i \in 1..Len(summary.chunks) :
                                            summary.chunks[i].label = "irrelevant"})
    /\ summary.relevant + summary.maybe + summary.irrelevant = summary.processed
    /\ summary.processed = Len(summary.chunks)
    /\ summary.processed <= summary.total

\* What C30 asks of the summary at the end of a run.
RunComplete(summary) ==
    LET kept == {i \in 1..Len(summary.chunks) : summary.chunks[i].label # "irrelevant"}
        sections == IF summary.relevantContent = "" THEN <<>>
                    ELSE SplitStr(summary.relevantContent, Sentinel)
    IN  /\ summary.processed = summary.total
        /\ summary.progress = 100
        /\ \A i \in 1..Len(summary.chunks) :
               summary.chunks[i].id = "chunk-" \o NatToString(i - 1)
        /\ Len(sections) = Cardinality(kept)
        /\ \A i \in kept :
               sections[Cardinality({j \in kept : j <= i})]
                   = "## " \o summary.chunks[i].title \o "\n\n" \o summary.chunks[i].text

\* The summary is the last publication of the run: no other operation has
\* written it since.
OwnSummary(summary, run) ==
    /\ SummaryOfOneRun(summary, run.rawText)
    /\ summary.processed = run.processed

\* C30: within one run every published summary has counts that add up to
\* processed, which is the number of chunks published and at most total;
\* the run publishes after every 8th and after the last chunk; and it ends
\* with processed = total, progress 100, the ids chunk-0 .. chunk-(total-1)
\* in order and a relevantContent of exactly the chunks that are not
\* irrelevant.
C30_RunAccounting ==
    [][/\ (Len(pageTimers') > Len(pageTimers)) =>
              /\ OwnSummary(page'.relevanceSummary, pageTimers'[Len(pageTimers')])
              /\ CountsAddUp(page'.relevanceSummary)
              /\ page'.relevanceSummary.processed
                     = MinOf(YieldEvery, page'.relevanceSummary.total)
       /\ (AnalysisResume /\ OwnSummary(page.relevanceSummary, Head(pageTimers))) =>
              LET before == page.relevanceSummary
                  after == page'.relevanceSummary
              IN  /\ CountsAddUp(after)
                  /\ after.total = before.total
                  /\ IF before.processed < before.total
                     THEN /\ after.processed > before.processed
                          /\ after.processed - before.processed <= YieldEvery
                          /\ after.processed % YieldEvery = 0 \/ after.processed = after.total
                          /\ \A n \in (before.processed + 1)..(after.processed - 1) :
                                 n % YieldEvery # 0
                     ELSE RunComplete(after)]_vars

\* The run of the text of nine parts has published after its 8th part.
C30_Witness ==
    /\ latestAnalysis = <<NineParts>>
    /\ pageTimers = <<>>
    /\ page.relevanceSummary.total = 9
    /\ page.relevanceSummary.processed = 9
    /\ page.relevanceSummary.progress = 100
    /\ page.relevanceSummary.relevant = 3
    /\ page.relevanceSummary.maybe = 1
    /\ page.relevanceSummary.irrelevant = 5
    /\ Len(SplitStr(page.relevanceSummary.relevantContent, Sentinel)) = 4

====
